---- MODULE Spec2Model ----
(***************************************************************************)
(* effects-logging: log(), progressbar() and the text_writer handler       *)
(* stacks of src/src/effects_logging/core.py as a state machine.           *)
(*                                                                         *)
(* Worker threads (Procs) share one handler stack (one registry, one       *)
(* region lock, one sink).  Each worker repeatedly calls log() or iterates *)
(* a progressbar().  Under the background policy the redraw threads        *)
(* (Updaters) run _display_updater.  Every step between two accesses of    *)
(* shared state (registry, lock, stop event, updater_thread) is an action. *)
(***************************************************************************)
EXTENDS Integers, Sequences, FiniteSets, TLC

NumProcs == 2
MaxUpdaters == 2
MaxLen == 2
MaxBars == 2
MaxShown == 3
MaxOuterUpdaters == 1
ConcLen == 1

Procs == 1..NumProcs
Updaters == 1..MaxUpdaters
OuterUpdaters == 1..MaxOuterUpdaters
Items == {1, 2}

\* Python's None for an int-valued and for a str-valued field.
None == -1
NoneStr == "None"

Modes == {"none", "file", "fg", "bg"}

VARIABLES
    args,               \* the arguments of the text_writer() call, NoArgs without one
    mode,               \* which stack text_writer() installed ("none": no stack)
    interval_passed,    \* foreground policy: time.monotonic() - last_update_time
                        \* exceeds progressbar_update_interval
    progressbars,       \* progressbar_dict: bars in insertion order
    locked,             \* progressbar_lock (threading.Lock): TRUE when held
    holder,             \* ghost: the agent whose acquire took the lock (0: nobody)
    updater_thread,     \* 0 (None) or the Updater that updater_thread refers to
    updater_stop_event, \* threading.Event flag
    upc,                \* position of every redraw thread in _display_updater
    outer,              \* the text_writer stack around this one, if any: its
                        \* registry, updater_thread, stop event and threads
    screen,             \* the progress region of the sink: the lines that the
                        \* last WriteProgressBars wrote (kept when .on is set)
    user,               \* user code: the LogMessage handler that it installed
                        \* inside the stack, if any, and what that recorded;
                        \* the most progress bars that it has at a time
    w                   \* per worker: position and locals of the running call

vars == <<args, mode, interval_passed, progressbars, locked, holder, updater_thread,
          updater_stop_event, upc, outer, screen, user, w>>

\* the identifiers that uuid.uuid4() hands out
BarIds == 1..user.most

\* ghost name of a redraw thread as a lock holder
UAgent(u) == 0 - u

----------------------------------------------------------------------------
\* The handler stacks

FileKinds == {"LogMessage", "FlushSink", "FormatLogMessage"}

AllKinds == FileKinds \cup {"FormatProgressBar", "OpenProgressBar", "CloseProgressBar",
                            "GetProgressBarLock", "SetProgressBar",
                            "WriteProgressBars", "ClearProgressBars"}

\* mutant of Handled: the stack of a sink that is no terminal has the
\* progress-bar handlers too
HandledAll(m) == IF m = "none" THEN {} ELSE AllKinds

\* the effect kinds that have a handler in the stack text_writer assembled:
\* _text_writer_file (core.py:264-269) alone, or with the format handler and
\* one of the two progress-bar stacks (core.py:373-377)
Handled(m) ==
    IF m \in {"fg", "bg"} THEN AllKinds
    ELSE IF m = "file" THEN FileKinds
    ELSE {}

HasHandler(kind) == kind \in Handled(mode)

\* fx.safe_send(GetProgressBarLock()): threading.Lock() of the background
\* stack (core.py:274), _dummy_lock() of the foreground stack
\* (core.py:323-334), "none" without handler
LockObj ==
    IF ~HasHandler("GetProgressBarLock") THEN "none"
    ELSE IF mode = "fg" THEN "dummy"
    ELSE "real"

\* the arguments of text_writer(file, progressbar_async): whether
\* file.isatty(), and progressbar_async as passed or left out
NoArgs == [installed |-> FALSE, isatty |-> FALSE, progressbar_async |-> "omitted"]

AllArgs == {NoArgs} \cup [installed : {TRUE}, isatty : BOOLEAN,
                          progressbar_async : {"omitted", "True", "False"}]

\* mutant of text_writer: progressbar_async left out means True
text_writer_async_default(a) ==
    IF ~a.installed THEN "none"
    ELSE IF ~a.isatty THEN "file"
    ELSE IF a.progressbar_async \in {"True", "omitted"} THEN "bg"
    ELSE "fg"

\* core.py:380-388 and 360-372  text_writer(file, progressbar_async=False):
\* the stack it returns
text_writer(a) ==
    IF ~a.installed THEN "none"
    ELSE IF ~a.isatty THEN "file"
    ELSE IF a.progressbar_async = "True" THEN "bg"
    ELSE "fg"

----------------------------------------------------------------------------
\* Worker locals

IdleW == [pc |-> "idle", op |-> "none", lk |-> "none", got |-> FALSE, isStr |-> TRUE,
          exc |-> "none", steps |-> <<>>, warned |-> 0, wrote |-> FALSE,
          src |-> <<>>, pos |-> 1, k |-> 0, total |-> None, desc |-> NoneStr,
          bar_id |-> 0, out |-> <<>>, opened |-> FALSE, closes |-> 0, sets |-> 0,
          end |-> "none", result |-> "none", ctl |-> FALSE, openErr |-> "none",
          cont |-> "none", eff |-> <<>>, old |-> <<>>, level |-> "INFO", lines |-> <<>>,
          pend |-> FALSE, trace |-> <<>>,
          saved |-> <<>>, pairs |-> <<>>, rows |-> 0, cut |-> FALSE]

\* no stack around the one text_writer installed
NoOuter == [on |-> FALSE, bars |-> <<>>, thread |-> 0, event |-> FALSE,
            upc |-> [u \in OuterUpdaters |-> "off"]]

\* a background stack (core.py:272-277) around the one text_writer installed
BgOuter == [NoOuter EXCEPT !.on = TRUE]

\* user code installed no handler of its own
NoUser == [handler |-> "none", effects_sent |-> <<>>, calls |-> <<>>, most |-> MaxBars,
           nest |-> <<>>, asked |-> <<>>]

\* nothing was written yet; the lines written are not kept
Blank == [on |-> FALSE, shown |-> <<>>]

\* nothing was written yet; the lines written are kept
Watched == [Blank EXCEPT !.on = TRUE]

\* the state after `with text_writer(...)` was entered with arguments from A
\* inside a stack of O, the screen being one of S and the handler of user
\* code one of U; last_update_time = 0. (core.py:336) is less than an
\* interval ago or not
InitAll(A, O, S, U) ==
    /\ args \in A
    /\ outer \in O
    /\ screen \in S
    /\ user \in U
    /\ mode = text_writer(args)
    /\ interval_passed \in (IF mode = "fg" THEN BOOLEAN ELSE {FALSE})
    /\ progressbars = <<>>
    /\ locked = FALSE
    /\ holder = 0
    /\ updater_thread = 0
    /\ updater_stop_event = FALSE
    /\ upc = [u \in Updaters |-> "off"]
    /\ w = [p \in Procs |-> IdleW]

InitWith(A, O, S) == InitAll(A, O, S, {NoUser})

InitIn(A, O) == InitWith(A, O, {Blank})

InitOver(A) == InitIn(A, {NoOuter})

\* the same with the lines of the progress region kept, for user code that
\* has up to MaxShown bars at a time
InitShown(A) == InitAll(A, {NoOuter}, {Watched}, {[NoUser EXCEPT !.most = MaxShown]})

Init == InitOver(AllArgs)

\* the variables that only a few steps change
Stack == <<args, mode, interval_passed, outer, user>>

Frame == <<Stack, screen>>

Shared == <<progressbars, locked, holder, updater_thread, updater_stop_event, upc>>

----------------------------------------------------------------------------
\* threading.Lock

\* lock.acquire() that succeeds: only when the lock is free
LockAcquire(agent) ==
    /\ ~locked
    /\ locked' = TRUE
    /\ holder' = agent

\* lock.release() on a held lock: any thread may release a threading.Lock
LockRelease ==
    /\ locked
    /\ locked' = FALSE
    /\ holder' = 0

\* acquire() or __enter__ of the stack's lock object: _dummy_lock
\* (core.py:324-325, 330-331) lets every caller in at once
Enter(agent) ==
    IF LockObj = "dummy" THEN UNCHANGED <<locked, holder>> ELSE LockAcquire(agent)

----------------------------------------------------------------------------
\* The progress region of the sink

Max(a, b) == IF a >= b THEN a ELSE b

\* formatters.py:61-119  format_progressbar(state): the line of one bar, the
\* prefix from its description, a percentage bar value/max(value, total) for
\* a positive total and a counter otherwise; `of` names the bar the line is of
format_progressbar(b) ==
    [of |-> b.bar_id,
     prefix |-> b.description,
     value |-> b.value,
     total |-> IF b.total # None /\ b.total > 0 THEN Max(b.value, b.total) ELSE None]

\* mutant of progressbar_strings: only the first bar is rendered
progressbar_strings_first(bars) ==
    IF bars = <<>> THEN <<>> ELSE <<format_progressbar(Head(bars))>>

\* core.py:227-229  for state in progressbars.values():
\* progressbar_strings.append(fx.send(FormatProgressBar(state)))
RECURSIVE progressbar_strings(_)
progressbar_strings(bars) ==
    IF bars = <<>> THEN <<>>
    ELSE <<format_progressbar(Head(bars))>> \o progressbar_strings(Tail(bars))

\* core.py:230-232  the WriteProgressBars handler writes the lines of the
\* registry as it is now
WriteProgressBars ==
    screen' = IF screen.on THEN [screen EXCEPT !.shown = progressbar_strings(progressbars)]
              ELSE screen

----------------------------------------------------------------------------
\* LogLevel, the log functions and the dispatch of a LogMessage

Levels == {"DEBUG", "INFO", "WARNING", "ERROR"}

\* mutant of LogLevel: WARNING has the value of INFO
LogLevelFlat == [DEBUG |-> 0, INFO |-> 10, WARNING |-> 10, ERROR |-> 100]

\* types.py:9-13  class LogLevel(IntEnum)
LogLevel == [DEBUG |-> 0, INFO |-> 10, WARNING |-> 50, ERROR |-> 100]

\* IntEnum members compare as their int values
LevelLess(a, b) == LogLevel[a] < LogLevel[b]

LogFns == {"log_debug", "log_info", "log_warning", "log_error"}

\* mutant of LevelOf: every function logs at INFO
LevelOfInfo(fn) == "INFO"

\* core.py:58-75  log_debug, log_info, log_warning, log_error call
\* log(LogLevel.X, message)
LevelOf(fn) ==
    CASE fn = "log_debug" -> "DEBUG"
      [] fn = "log_info" -> "INFO"
      [] fn = "log_warning" -> "WARNING"
      [] fn = "log_error" -> "ERROR"

\* core.py:45  LogMessage(message=message, level=level); the message is the
\* text "m", passed as a str or as an object that is none
LogMessage(isStr, level) ==
    [message |-> [text |-> <<"m">>, str |-> isStr], level |-> level]

\* __init__.py:20-26  add_prefix: LogMessage(message=f"[APP] {effect.message}",
\* level=effect.level); the f-string is a str whatever the message was
add_prefix(effect) ==
    [message |-> [text |-> <<"[APP] ">> \o effect.message.text, str |-> TRUE],
     level |-> effect.level]

\* mutant of LogChain: the handler of text_writer comes before the handler
\* that user code installed inside it
LogChainOuterFirst ==
    (IF HasHandler("LogMessage") THEN <<"text_writer">> ELSE <<>>)
      \o (IF user.handler # "none" THEN <<user.handler>> ELSE <<>>)

\* the LogMessage handlers from the innermost to the outermost: the one user
\* code installed inside `with text_writer(...)` (__init__.py:29,
\* tests/test_logging.py:25), then the one of text_writer (core.py:266)
LogChain ==
    (IF user.handler # "none" THEN <<user.handler>> ELSE <<>>)
      \o (IF HasHandler("LogMessage") THEN <<"text_writer">> ELSE <<>>)

\* fx.send (safe = FALSE) or fx.safe_send (safe = TRUE) of a LogMessage to the
\* handlers of chain, the first of which gets it: the lines that text_writer
\* writes, the effects that capture_effect records, the exception raised.
\* capture_effect (tests/test_logging.py:22-23) appends and returns;
\* add_prefix (__init__.py:26) sends its modified effect on with
\* fx.send(..., interpret_final=False); the handler of text_writer
\* (core.py:132-137) formats (text.split of formatters.py:26 raises
\* AttributeError for a message that is no str), writes the line and sends
\* the effect on with fx.safe_send(..., interpret_final=False)
RECURSIVE Deliver(_, _, _)
Deliver(chain, effect, safe) ==
    IF chain = <<>>
    THEN [lines |-> <<>>, sent |-> <<>>,
          exc |-> IF safe THEN "none" ELSE "NoHandlerError"]
    ELSE IF Head(chain) = "capture"
    THEN [lines |-> <<>>, sent |-> <<effect>>, exc |-> "none"]
    ELSE IF Head(chain) = "add_prefix"
    THEN Deliver(Tail(chain), add_prefix(effect), FALSE)
    ELSE IF ~effect.message.str
    THEN [lines |-> <<>>, sent |-> <<>>, exc |-> "AttributeError"]
    ELSE LET up == Deliver(Tail(chain), effect, TRUE)
         IN  [lines |-> <<effect>> \o up.lines, sent |-> up.sent, exc |-> up.exc]

----------------------------------------------------------------------------
\* log(level, message)

\* the most calls that a handler of user code keeps
MaxCalls == 3

\* core.py:58-75, 39  one of the functions Fns is called with a message:
\* log(level, message) starts with
\* progressbar_lock = fx.safe_send(GetProgressBarLock())
LogCallIn(p, Fns) ==
    /\ w[p].pc = "idle"
    /\ user.handler = "capture" => Len(user.calls) < MaxCalls
    /\ \E s \in BOOLEAN, fn \in Fns :
         /\ w' = [w EXCEPT ![p] = [IdleW EXCEPT
                  !.pc = IF LockObj = "none" THEN "log_clear" ELSE "log_acquire",
                  !.op = "log",
                  !.lk = LockObj,
                  !.isStr = s,
                  !.level = LevelOf(fn),
                  !.steps = <<"getlock">>]]
         /\ user' = IF user.handler = "capture"
                    THEN [user EXCEPT !.calls = Append(@, [fn |-> fn, isStr |-> s])]
                    ELSE user
    /\ UNCHANGED <<args, mode, interval_passed, outer, screen, Shared>>

LogCall(p) == LogCallIn(p, {"log_info"})

\* core.py:41  progressbar_lock.acquire(timeout=1.0) returns True
LogAcquire(p) ==
    /\ w[p].pc = "log_acquire"
    /\ Enter(p)
    /\ w' = [w EXCEPT ![p].pc = "log_clear", ![p].got = TRUE,
                      ![p].steps = Append(@, "acquire")]
    /\ UNCHANGED <<Frame, progressbars, updater_thread, updater_stop_event, upc>>

\* core.py:41  the lock stayed held for the whole timeout: acquire returns
\* False, the result is dropped and the call goes on
LogAcquireTimeout(p) ==
    /\ w[p].pc = "log_acquire"
    /\ w[p].lk = "real"
    /\ locked
    /\ w' = [w EXCEPT ![p].pc = "log_clear", ![p].got = FALSE,
                      ![p].steps = Append(@, "acquire")]
    /\ UNCHANGED <<Frame, Shared>>

\* the call ends: returns, or raises the pending exception
LogEnd(r) ==
    [r EXCEPT !.pc = "done",
              !.result = IF r.exc = "none" THEN "returned" ELSE "raised"]

\* mutant of LogClear: the call goes on to LogMessage without clearing
LogClearSkipped(p) ==
    /\ w[p].pc = "log_clear"
    /\ w' = [w EXCEPT ![p].pc = "log_send"]
    /\ UNCHANGED <<Frame, Shared>>

\* mutant of LogClear: the effect is sent with fx.send, which raises
\* NoHandlerError without a handler
LogClearStrict(p) ==
    /\ w[p].pc = "log_clear"
    /\ w' = [w EXCEPT ![p] =
              IF HasHandler("ClearProgressBars")
              THEN [@ EXCEPT !.pc = "log_send", !.steps = Append(@, "clear"),
                             !.wrote = TRUE, !.ctl = TRUE]
              ELSE [@ EXCEPT !.pc = "log_fin", !.exc = "NoHandlerError",
                             !.steps = Append(@, "clear")]]
    /\ UNCHANGED <<Frame, Shared>>

\* core.py:43  fx.safe_send(ClearProgressBars())
LogClear(p) ==
    /\ w[p].pc = "log_clear"
    /\ w' = [w EXCEPT ![p].pc = "log_send",
                      ![p].steps = Append(@, "clear"),
                      ![p].wrote = @ \/ HasHandler("ClearProgressBars"),
                      ![p].ctl = @ \/ HasHandler("ClearProgressBars"),
                      ![p].pend = HasHandler("ClearProgressBars")]
    /\ UNCHANGED <<Frame, Shared>>

\* mutant of LogSend: the release is not in a finally block, so an error of
\* the handler leaves the call at once
LogSendNoFinally(p) ==
    /\ w[p].pc = "log_send"
    /\ w' = [w EXCEPT ![p] =
              IF ~HasHandler("LogMessage")
              THEN [@ EXCEPT !.pc = "log_write", !.warned = @ + 1,
                             !.steps = Append(@, "logmsg")]
              ELSE IF ~w[p].isStr
              THEN LogEnd([@ EXCEPT !.exc = "AttributeError",
                                    !.steps = Append(@, "logmsg")])
              ELSE [@ EXCEPT !.pc = "log_write", !.wrote = TRUE,
                             !.steps = Append(@, "logmsg")]]
    /\ UNCHANGED <<Frame, Shared>>

\* mutant of LogSend: NoHandlerError is not caught
LogSendNoCatch(p) ==
    /\ w[p].pc = "log_send"
    /\ w' = [w EXCEPT ![p] =
              IF ~HasHandler("LogMessage")
              THEN [@ EXCEPT !.pc = "log_fin", !.exc = "NoHandlerError",
                             !.steps = Append(@, "logmsg")]
              ELSE IF ~w[p].isStr
              THEN [@ EXCEPT !.pc = "log_fin", !.exc = "AttributeError",
                             !.steps = Append(@, "logmsg")]
              ELSE [@ EXCEPT !.pc = "log_write", !.wrote = TRUE,
                             !.steps = Append(@, "logmsg")]]
    /\ UNCHANGED <<Frame, Shared>>

\* core.py:44-50  fx.send(LogMessage(message=message, level=level)) to the
\* handlers installed; NoHandlerError becomes a warning, any other exception
\* leaves the try block
LogSend(p) ==
    /\ w[p].pc = "log_send"
    /\ LET d == Deliver(LogChain, LogMessage(w[p].isStr, w[p].level), FALSE) IN
         /\ w' = [w EXCEPT ![p] =
                   IF d.exc = "NoHandlerError"
                   THEN [@ EXCEPT !.pc = "log_write", !.warned = @ + 1,
                                  !.lines = d.lines,
                                  !.steps = Append(@, "logmsg")]
                   ELSE IF d.exc # "none"
                   THEN [@ EXCEPT !.pc = "log_fin", !.exc = d.exc,
                                  !.lines = d.lines,
                                  !.steps = Append(@, "logmsg")]
                   ELSE [@ EXCEPT !.pc = "log_write", !.wrote = @ \/ d.lines # <<>>,
                                  !.lines = d.lines,
                                  !.steps = Append(@, "logmsg")]]
         /\ user' = [user EXCEPT !.effects_sent = @ \o d.sent]
    /\ UNCHANGED <<args, mode, interval_passed, outer, screen, Shared>>

\* core.py:51  fx.safe_send(WriteProgressBars())
LogWrite(p) ==
    /\ w[p].pc = "log_write"
    /\ w' = [w EXCEPT ![p].pc = "log_flush",
                      ![p].steps = Append(@, "write"),
                      ![p].wrote = @ \/ HasHandler("WriteProgressBars"),
                      ![p].ctl = @ \/ HasHandler("WriteProgressBars"),
                      ![p].pend = @ /\ ~HasHandler("WriteProgressBars")]
    /\ IF HasHandler("WriteProgressBars") THEN WriteProgressBars ELSE UNCHANGED screen
    /\ UNCHANGED <<Stack, Shared>>

\* core.py:52  fx.safe_send(FlushSink())
LogFlush(p) ==
    /\ w[p].pc = "log_flush"
    /\ w' = [w EXCEPT ![p].pc = "log_fin",
                      ![p].steps = Append(@, "flush")]
    /\ UNCHANGED <<Frame, Shared>>

\* core.py:53-54  finally: if progressbar_lock is not None and
\* progressbar_lock.locked(); _dummy_lock.locked() is False (core.py:328-329)
LogFinally(p) ==
    /\ w[p].pc = "log_fin"
    /\ w' = [w EXCEPT ![p] =
              IF w[p].lk = "real" /\ locked
              THEN [@ EXCEPT !.pc = "log_release"]
              ELSE LogEnd(@)]
    /\ UNCHANGED <<Frame, Shared>>

\* core.py:55  progressbar_lock.release(); on a lock that was freed since the
\* locked() test it raises RuntimeError, which replaces a pending exception
LogRelease(p) ==
    /\ w[p].pc = "log_release"
    /\ IF locked
       THEN /\ LockRelease
            /\ w' = [w EXCEPT ![p] = LogEnd([@ EXCEPT !.steps = Append(@, "release")])]
       ELSE /\ w' = [w EXCEPT ![p] = LogEnd([@ EXCEPT !.exc = "RuntimeError"])]
            /\ UNCHANGED <<locked, holder>>
    /\ UNCHANGED <<Frame, progressbars, updater_thread, updater_stop_event, upc>>

\* the caller goes on after the call
Return(p) ==
    /\ w[p].pc = "done"
    /\ w[p].saved = <<>>
    /\ w' = [w EXCEPT ![p] = IdleW]
    /\ UNCHANGED <<Frame, Shared>>

Log(p) ==
    \/ LogCall(p) \/ LogAcquire(p) \/ LogAcquireTimeout(p) \/ LogClear(p)
    \/ LogSend(p) \/ LogWrite(p) \/ LogFlush(p) \/ LogFinally(p) \/ LogRelease(p)

----------------------------------------------------------------------------
\* The registry: progressbar_dict, a dict in insertion order

BarIndex(bars, id) == {i \in 1..Len(bars) : bars[i].bar_id = id}

HasBar(bars, id) == BarIndex(bars, id) # {}

GetBar(bars, id) == bars[CHOOSE i \in BarIndex(bars, id) : TRUE]

\* d[id] = bar: a present key keeps its place, a new key goes last
PutBar(bars, bar) ==
    IF HasBar(bars, bar.bar_id)
    THEN [i \in 1..Len(bars) |-> IF bars[i].bar_id = bar.bar_id THEN bar ELSE bars[i]]
    ELSE Append(bars, bar)

\* del d[id]
DelBar(bars, id) == SelectSeq(bars, LAMBDA b : b.bar_id # id)

\* time.monotonic() as read when a bar is opened
Monotonic == 1

\* types.py:20-26  ProgressBar(bar_id=bar_id, start_time=time.monotonic())
NewBar(id) == [bar_id |-> id, value |-> 0, total |-> None, description |-> "",
               start_time |-> Monotonic]

\* Python truth of an optional int and of an optional str
TruthyInt(x) == x # None /\ x # 0
TruthyStr(x) == x # NoneStr /\ x # ""

\* mutant of SetMerge: every field of the effect is stored, None too
SetReplace(old, eff) ==
    [bar_id |-> old.bar_id, value |-> eff.value, total |-> eff.total,
     description |-> eff.description, start_time |-> eff.start_time]

\* core.py:202-208  dc.replace(old, value=effect.value or old.value, ...)
SetMerge(old, eff) ==
    [bar_id |-> old.bar_id,
     value |-> IF TruthyInt(eff.value) THEN eff.value ELSE old.value,
     total |-> IF TruthyInt(eff.total) THEN eff.total ELSE old.total,
     description |-> IF TruthyStr(eff.description) THEN eff.description
                     ELSE old.description,
     start_time |-> IF TruthyInt(eff.start_time) THEN eff.start_time
                    ELSE old.start_time]

\* uuid.uuid4(): an identifier no bar and no iterator holds
UsedIds == {progressbars[i].bar_id : i \in 1..Len(progressbars)}
             \cup {w[p].bar_id : p \in Procs}

FreshId == CHOOSE id \in BarIds : id \notin UsedIds /\ \A j \in BarIds \ UsedIds : id <= j

----------------------------------------------------------------------------
\* progressbar(iterable, total, desc_callback, initial_desc)

Srcs(L) == UNION {[1..n -> Items] : n \in 0..L}

\* what progressbar() does towards the handlers and the consumer, in order:
\* an effect sent (Open, Set with its fields, Close) or an item yielded
Did(kind, eff, item) ==
    [kind |-> kind, value |-> eff.value, total |-> eff.total,
     description |-> eff.description, item |-> item]

NoFields == [value |-> None, total |-> None, description |-> NoneStr]

\* the arguments of one progressbar() call: the source, whether it has a
\* len(), and initial_desc
Inputs(L) == [src : Srcs(L), hasLen : BOOLEAN, desc : {NoneStr, "X"}]

\* the arguments used when several workers run in parallel
ConcInputs == [src : Srcs(ConcLen), hasLen : {TRUE}, desc : {NoneStr}]

\* mutant of PbCall: NoHandlerError of OpenProgressBar is not turned into
\* plain iteration
PbCallNoFallback(p, In) ==
    /\ w[p].pc = "idle"
    /\ \E in \in In :
         w' = [w EXCEPT ![p] = [IdleW EXCEPT
                  !.pc = IF HasHandler("OpenProgressBar") THEN "open_lock"
                         ELSE "pb_loop",
                  !.op = "pb",
                  !.openErr = IF HasHandler("OpenProgressBar") THEN "none"
                              ELSE "NoHandlerError",
                  !.src = in.src,
                  !.total = IF in.hasLen THEN Len(in.src) ELSE None,
                  !.desc = in.desc]]
    /\ UNCHANGED <<Frame, Shared>>

\* core.py:96-106  the generator starts: total from len(iterable), then
\* fx.send(OpenProgressBar()); NoHandlerError turns it into `yield from`
PbCall(p, In) ==
    /\ w[p].pc = "idle"
    /\ \E in \in In :
         w' = [w EXCEPT ![p] = [IdleW EXCEPT
                  !.pc = IF HasHandler("OpenProgressBar") THEN "open_lock"
                         ELSE "pass_loop",
                  !.op = "pb",
                  !.trace = <<Did("Open", NoFields, 0)>>,
                  !.openErr = IF HasHandler("OpenProgressBar") THEN "none"
                              ELSE "NoHandlerError",
                  !.src = in.src,
                  !.total = IF in.hasLen THEN Len(in.src) ELSE None,
                  !.desc = in.desc]]
    /\ UNCHANGED <<Frame, Shared>>

\* core.py:105  yield from iterable: the next item, or the end
PassNext(p) ==
    /\ w[p].pc = "pass_loop"
    /\ w' = [w EXCEPT ![p] =
              IF w[p].pos > Len(w[p].src)
              THEN [@ EXCEPT !.pc = "done", !.end = "exhaust", !.result = "returned"]
              ELSE [@ EXCEPT !.pc = "pass_yield", !.pos = @ + 1,
                             !.out = Append(@, w[p].src[w[p].pos])]]
    /\ UNCHANGED <<Frame, Shared>>

\* the consumer asks for the next item
PassResume(p) ==
    /\ w[p].pc = "pass_yield"
    /\ w' = [w EXCEPT ![p].pc = "pass_loop"]
    /\ UNCHANGED <<Frame, Shared>>

\* the consumer raises in its loop body or breaks: the suspended generator is
\* closed; in `yield from` there is nothing to clean up
PassStop(p) ==
    /\ w[p].pc = "pass_yield"
    /\ \E e \in {"raise", "break"} :
         w' = [w EXCEPT ![p].pc = "done", ![p].end = e,
                        ![p].exc = IF e = "raise" THEN "ConsumerError" ELSE "none",
                        ![p].result = IF e = "raise" THEN "raised" ELSE "returned"]
    /\ UNCHANGED <<Frame, Shared>>

\* fx.safe_send(SetProgressBar(...)) as the registry handler does it
\* (core.py:201-209); r is the worker's record, the result is the pair
\* <<registry, "none" or the exception raised>>
SendSet(r, eff) ==
    IF ~HasHandler("SetProgressBar") THEN <<progressbars, "none">>
    ELSE IF ~HasBar(progressbars, r.bar_id) THEN <<progressbars, "KeyError">>
    ELSE <<PutBar(progressbars, SetMerge(GetBar(progressbars, r.bar_id), eff)), "none">>

\* core.py:209  fx.safe_send(effect, interpret_final=False): the registry
\* handler of the stack around, if any, after this one's; exc is what this
\* one raised. The result is the pair <<outer, exception>>
ForwardSet(id, eff, exc) ==
    IF ~outer.on \/ exc # "none" \/ ~HasHandler("SetProgressBar") THEN <<outer, exc>>
    ELSE IF ~HasBar(outer.bars, id) THEN <<outer, "KeyError">>
    ELSE <<[outer EXCEPT !.bars = PutBar(@, SetMerge(GetBar(@, id), eff))], "none">>

\* mutant of SetEffect: the copy made after the yield keeps the value of the
\* first effect
SetEffectStale(r, v) ==
    [value |-> r.k, total |-> r.total, description |-> r.desc, start_time |-> None]

\* core.py:111-116, 120  the effect of the k-th item and its dc.replace copy
SetEffect(r, v) ==
    [value |-> v, total |-> r.total, description |-> r.desc, start_time |-> None]

\* mutant of Arrive: the generator yields its counter k, not the item
ArriveCounter(r, cont) ==
    IF cont = "pb_yield"
    THEN [r EXCEPT !.pc = "pb_yield", !.out = Append(@, r.k)]
    ELSE IF cont = "done"
    THEN [r EXCEPT !.pc = "done", !.result = "returned"]
    ELSE [r EXCEPT !.pc = cont]

\* the generator goes on at cont: at the yield of core.py:118 it hands the
\* item it took from the source to the consumer
Arrive(r, cont) ==
    IF cont = "pb_yield"
    THEN [r EXCEPT !.pc = "pb_yield", !.out = Append(@, r.src[r.pos - 1]),
                   !.trace = Append(@, Did("Yield", NoFields, r.src[r.pos - 1]))]
    ELSE IF cont = "done"
    THEN [r EXCEPT !.pc = "done", !.result = "returned"]
    ELSE [r EXCEPT !.pc = cont]

\* the registry handler has returned: in the foreground stack the effect
\* came through _update_progressbars (core.py:340), which now reads the clock
AfterSet(r, cont) ==
    IF mode = "fg" THEN [r EXCEPT !.pc = "set_check", !.cont = cont]
    ELSE Arrive(r, cont)

\* core.py:109-118  for item in iterable: SetProgressBar(value=k, total,
\* description), then yield item; exhaustion leads to the finally block
PbNext(p) ==
    /\ w[p].pc = "pb_loop"
    /\ IF w[p].pos > Len(w[p].src)
       THEN /\ w' = [w EXCEPT ![p].pc = "pb_finally", ![p].end = "exhaust"]
            /\ UNCHANGED <<progressbars, outer>>
       ELSE LET eff == SetEffect(w[p], w[p].k)
                res == SendSet(w[p], eff)
                fwd == ForwardSet(w[p].bar_id, eff, res[2])
            IN
            /\ progressbars' = res[1]
            /\ outer' = fwd[1]
            /\ w' = [w EXCEPT ![p] =
                      IF fwd[2] # "none"
                      THEN [@ EXCEPT !.pc = "pb_finally", !.exc = fwd[2],
                                     !.pos = @ + 1, !.sets = @ + 1,
                                     !.trace = Append(@, Did("Set", eff, 0))]
                      ELSE AfterSet([@ EXCEPT !.pos = @ + 1, !.sets = @ + 1,
                                              !.trace = Append(@, Did("Set", eff, 0))],
                                    "pb_yield")]
    /\ UNCHANGED <<args, mode, interval_passed, screen, user, locked, holder,
                   updater_thread, updater_stop_event, upc>>

\* core.py:119-120  control returns: k += 1; SetProgressBar(value=k) with the
\* other fields of the first effect (dc.replace)
PbResume(p) ==
    /\ w[p].pc = "pb_yield"
    /\ LET eff == SetEffect(w[p], w[p].k + 1)
           res == SendSet(w[p], eff)
           fwd == ForwardSet(w[p].bar_id, eff, res[2])
       IN
         /\ progressbars' = res[1]
         /\ outer' = fwd[1]
         /\ w' = [w EXCEPT ![p] =
                   IF fwd[2] # "none"
                   THEN [@ EXCEPT !.pc = "pb_finally", !.exc = fwd[2],
                                  !.k = @ + 1, !.sets = @ + 1,
                                  !.trace = Append(@, Did("Set", eff, 0))]
                   ELSE AfterSet([@ EXCEPT !.k = @ + 1, !.sets = @ + 1,
                                           !.trace = Append(@, Did("Set", eff, 0))],
                                 "pb_loop")]
    /\ UNCHANGED <<args, mode, interval_passed, screen, user, locked, holder,
                   updater_thread, updater_stop_event, upc>>

\* core.py:341-343  current_time = time.monotonic(); if current_time -
\* last_update_time > progressbar_update_interval: with the dummy lock
SetCheck(p) ==
    /\ w[p].pc = "set_check"
    /\ w' = [w EXCEPT ![p] =
              IF interval_passed THEN [@ EXCEPT !.pc = "set_clear"]
              ELSE Arrive(@, w[p].cont)]
    /\ UNCHANGED <<Frame, Shared>>

\* core.py:344  fx.safe_send(ClearProgressBars())
SetClear(p) ==
    /\ w[p].pc = "set_clear"
    /\ w' = [w EXCEPT ![p].pc = "set_write", ![p].wrote = TRUE, ![p].ctl = TRUE,
                      ![p].pend = TRUE]
    /\ UNCHANGED <<Frame, Shared>>

\* core.py:345  fx.safe_send(WriteProgressBars())
SetWrite(p) ==
    /\ w[p].pc = "set_write"
    /\ w' = [w EXCEPT ![p].pc = "set_flush", ![p].pend = FALSE]
    /\ WriteProgressBars
    /\ UNCHANGED <<Stack, Shared>>

\* mutant of SetFlush: the repaint leaves last_update_time as it was
SetFlushKeepsClock(p) ==
    /\ w[p].pc = "set_flush"
    /\ w' = [w EXCEPT ![p] = Arrive(@, w[p].cont)]
    /\ UNCHANGED <<Frame, Shared>>

\* core.py:346-347  fx.safe_send(FlushSink()); last_update_time = current_time
SetFlush(p) ==
    /\ w[p].pc = "set_flush"
    /\ interval_passed' = FALSE
    /\ w' = [w EXCEPT ![p] = Arrive(@, w[p].cont)]
    /\ UNCHANGED <<args, mode, outer, screen, user, Shared>>

\* time.monotonic() moves more than an interval away from last_update_time
TimePasses ==
    /\ mode = "fg"
    /\ ~interval_passed
    /\ interval_passed' = TRUE
    /\ UNCHANGED <<args, mode, outer, screen, user, Shared, w>>

\* mutant of PbEnd: the generator ends normally whatever happened
PbEndSwallow(r) == [r EXCEPT !.pc = "done", !.exc = "none", !.result = "returned"]

\* the iteration ends. The consumer that took every item gets an exception
\* raised inside the generator; a loop left by raise or break drops the
\* suspended generator, whose finalizer runs the finally block and discards
\* what it raises, so the consumer's own exception (or none) is what is left
PbEnd(r) ==
    [r EXCEPT !.pc = "done",
              !.exc = IF r.end = "raise" THEN "ConsumerError"
                      ELSE IF r.end = "break" THEN "none" ELSE @,
              !.result = IF r.end = "raise" THEN "raised"
                         ELSE IF r.end = "break" THEN "returned"
                         ELSE IF r.exc # "none" THEN "raised" ELSE "returned"]

\* mutant of PbStop: no finally block around the loop, closing the suspended
\* generator just ends it
PbStopNoFinally(p) ==
    /\ w[p].pc = "pb_yield"
    /\ \E e \in {"raise", "break"} :
         w' = [w EXCEPT ![p] = PbEnd([@ EXCEPT !.end = e])]
    /\ UNCHANGED <<Frame, Shared>>

\* the consumer raises in its loop body or breaks: the generator suspended
\* at core.py:118 is closed (GeneratorExit) and its finally block runs
PbStop(p) ==
    /\ w[p].pc = "pb_yield"
    /\ \E e \in {"raise", "break"} :
         w' = [w EXCEPT ![p].pc = "pb_finally", ![p].end = e]
    /\ UNCHANGED <<Frame, Shared>>

\* core.py:121-122  finally: fx.safe_send(CloseProgressBar(bar_id=bar_id))
PbFinally(p) ==
    /\ w[p].pc = "pb_finally"
    /\ w' = [w EXCEPT ![p] =
              IF HasHandler("CloseProgressBar")
              THEN [@ EXCEPT !.pc = "close_lock", !.closes = @ + 1,
                             !.trace = Append(@, Did("Close", NoFields, 0))]
              ELSE PbEnd([@ EXCEPT !.closes = @ + 1,
                                   !.trace = Append(@, Did("Close", NoFields, 0))])]
    /\ UNCHANGED <<Frame, Shared>>

Progressbar(p, In) ==
    \/ PbCall(p, In) \/ PassNext(p) \/ PassResume(p) \/ PassStop(p)
    \/ PbNext(p) \/ PbResume(p) \/ PbStop(p) \/ PbFinally(p)

\* _update_progressbars (core.py:338-347) after the registry handler
Redraw(p) == SetCheck(p) \/ SetClear(p) \/ SetWrite(p) \/ SetFlush(p)

----------------------------------------------------------------------------
\* Nested loops: for i in progressbar(outer): for j in progressbar(inner):
\* results.append((i, j))    (tests/test_integration.py:89-91)

\* the arguments of the two calls: range(2) and range(3) as lists
OuterInputs == {[src |-> <<1, 2>>, hasLen |-> TRUE, desc |-> "X"]}

InnerSrc == <<1, 2, 3>>

\* the pairs of one outer item with the inner items handed out
Row(i, js) == [n \in 1..Len(js) |-> <<i, js[n]>>]

\* the body of the outer loop starts its inner loop: the outer generator
\* stays suspended at its yield, saved holds its frame
InnerCall(p) ==
    /\ w[p].pc \in {"pb_yield", "pass_yield"}
    /\ w[p].saved = <<>>
    /\ w[p].rows < Len(w[p].out)
    /\ w' = [w EXCEPT ![p] = [IdleW EXCEPT
                  !.pc = IF HasHandler("OpenProgressBar") THEN "open_lock"
                         ELSE "pass_loop",
                  !.op = "pb",
                  !.openErr = IF HasHandler("OpenProgressBar") THEN "none"
                              ELSE "NoHandlerError",
                  !.trace = <<Did("Open", NoFields, 0)>>,
                  !.src = InnerSrc,
                  !.total = Len(InnerSrc),
                  !.saved = <<w[p]>>]]
    /\ UNCHANGED <<Frame, Shared>>

\* the inner loop is over: its pairs are in the results and the body of the
\* outer loop ends, or the inner loop raised, which ends the outer loop as
\* an exception in its body does
InnerReturn(p) ==
    /\ w[p].pc = "done"
    /\ w[p].saved # <<>>
    /\ LET o == w[p].saved[1]
           got == [o EXCEPT !.pairs = @ \o Row(o.out[Len(o.out)], w[p].out),
                            !.rows = @ + 1,
                            !.cut = @ \/ w[p].end # "exhaust"]
       IN  w' = [w EXCEPT ![p] =
                   IF w[p].result # "raised" THEN got
                   ELSE IF o.pc = "pb_yield"
                   THEN [got EXCEPT !.pc = "pb_finally", !.end = "raise"]
                   ELSE [got EXCEPT !.pc = "done", !.end = "raise",
                                    !.exc = "ConsumerError", !.result = "raised"]]
    /\ UNCHANGED <<Frame, Shared>>

\* the outer loop: its body goes on to the next item only after its inner loop
OuterLoop(p) ==
    /\ w[p].saved = <<>>
    /\ \/ PbCall(p, OuterInputs) \/ PbNext(p) \/ PassNext(p) \/ PbFinally(p)
       \/ PbStop(p) \/ PassStop(p)
       \/ w[p].rows = Len(w[p].out) /\ (PbResume(p) \/ PassResume(p))

\* the inner loop, whose body only records the pair
InnerLoop(p) ==
    /\ w[p].saved # <<>>
    /\ \/ PbNext(p) \/ PassNext(p) \/ PbFinally(p) \/ PbStop(p) \/ PassStop(p)
       \/ PbResume(p) \/ PassResume(p)

Nested(p) == OuterLoop(p) \/ InnerLoop(p) \/ InnerCall(p) \/ InnerReturn(p)

----------------------------------------------------------------------------
\* Effects that user code sends with fx.send

\* values of the optional fields of a SetProgressBar (types.py:58-64)
SetEffects == [value : {None, 0, 2}, total : {None, 0, 2},
               description : {NoneStr, "", "X"}, start_time : {None, 0, 2}]

\* fx.send with no handler of the effect's kind raises NoHandlerError
NoHandler(r) ==
    [r EXCEPT !.pc = "done", !.exc = "NoHandlerError", !.result = "raised"]

\* fx.send(OpenProgressBar(bar_id=id)) with id from Ids or None (0); user
\* code has at most cap bars open
DirectOpenIn(p, Ids, cap) ==
    /\ w[p].pc = "idle"
    /\ \E id \in Ids \cup {0} :
         /\ Len(progressbars) < cap \/ HasBar(progressbars, id)
         /\ w' = [w EXCEPT ![p] =
                 IF HasHandler("OpenProgressBar")
                 THEN [IdleW EXCEPT !.pc = "open_lock", !.op = "fx_open", !.bar_id = id]
                 ELSE NoHandler([IdleW EXCEPT !.op = "fx_open",
                                              !.openErr = "NoHandlerError"])]
    /\ UNCHANGED <<Frame, Shared>>

DirectOpen(p) == DirectOpenIn(p, BarIds, MaxBars)

\* fx.send(SetProgressBar(bar_id=id, ...)) with id from Ids and the fields of
\* one of Effs: the registry handler (core.py:201-209), in the foreground
\* stack inside _update_progressbars
DirectSetIn(p, Ids, Effs) ==
    /\ w[p].pc = "idle"
    /\ \E id \in Ids, eff \in Effs :
         LET r == [IdleW EXCEPT !.op = "fx_set", !.bar_id = id, !.eff = eff,
                                !.old = IF HasBar(progressbars, id)
                                        THEN GetBar(progressbars, id) ELSE <<>>]
             res == SendSet(r, eff)
             fwd == ForwardSet(id, eff, res[2])
         IN  /\ progressbars' = res[1]
             /\ outer' = fwd[1]
             /\ w' = [w EXCEPT ![p] =
                       IF ~HasHandler("SetProgressBar") THEN NoHandler(r)
                       ELSE IF fwd[2] # "none"
                       THEN [r EXCEPT !.pc = "done", !.exc = fwd[2], !.result = "raised"]
                       ELSE AfterSet(r, "done")]
    /\ UNCHANGED <<args, mode, interval_passed, screen, user, locked, holder,
                   updater_thread, updater_stop_event, upc>>

DirectSet(p) == DirectSetIn(p, BarIds, SetEffects)

\* fx.send(CloseProgressBar(bar_id=id)) with id from Ids
DirectCloseIn(p, Ids) ==
    /\ w[p].pc = "idle"
    /\ \E id \in Ids :
         w' = [w EXCEPT ![p] =
                 IF HasHandler("CloseProgressBar")
                 THEN [IdleW EXCEPT !.pc = "close_lock", !.op = "fx_close", !.bar_id = id]
                 ELSE NoHandler([IdleW EXCEPT !.op = "fx_close"])]
    /\ UNCHANGED <<Frame, Shared>>

DirectClose(p) == DirectCloseIn(p, BarIds)

Direct(p) == DirectOpen(p) \/ DirectSet(p) \/ DirectClose(p)

----------------------------------------------------------------------------
\* OpenProgressBar handler (core.py:154-173) with _start_progress_updater

\* core.py:173, 103  the handler returns bar_id, to progressbar() or to the
\* code that sent the effect
OpenReturn(r) ==
    IF r.op = "pb" THEN [r EXCEPT !.pc = "pb_loop", !.opened = TRUE]
    ELSE [r EXCEPT !.pc = "done", !.opened = TRUE, !.result = "returned"]

\* an exception leaves the handler and fx.send: progressbar() got no
\* identifier and ends with it
OpenRaise(r, e) ==
    [r EXCEPT !.pc = "done", !.exc = e, !.result = "raised", !.bar_id = 0]

\* core.py:155  with fx.send(GetProgressBarLock()): the blocking acquire
OpenLock(p) ==
    /\ w[p].pc = "open_lock"
    /\ Enter(p)
    /\ w' = [w EXCEPT ![p].pc = "open_clear"]
    /\ UNCHANGED <<Frame, progressbars, updater_thread, updater_stop_event, upc>>

\* core.py:156  fx.send(ClearProgressBars())
OpenClear(p) ==
    /\ w[p].pc = "open_clear"
    /\ w' = [w EXCEPT ![p].pc = "open_insert", ![p].wrote = TRUE, ![p].ctl = TRUE,
                      ![p].pend = TRUE]
    /\ UNCHANGED <<Frame, Shared>>

\* core.py:158-163  bar_id = effect.bar_id, or uuid.uuid4() for None;
\* progressbars[bar_id] = ProgressBar(...)
OpenInsert(p) ==
    /\ w[p].pc = "open_insert"
    /\ w[p].bar_id = 0 => BarIds \ UsedIds # {}
    /\ LET bar_id == IF w[p].bar_id = 0 THEN FreshId ELSE w[p].bar_id IN
         /\ progressbars' = PutBar(progressbars, NewBar(bar_id))
         /\ w' = [w EXCEPT ![p].pc = "open_write", ![p].bar_id = bar_id]
    /\ UNCHANGED <<Frame, locked, holder, updater_thread, updater_stop_event, upc>>

\* core.py:165  fx.send(WriteProgressBars())
OpenWrite(p) ==
    /\ w[p].pc = "open_write"
    /\ w' = [w EXCEPT ![p].pc = "open_flush", ![p].pend = FALSE]
    /\ WriteProgressBars
    /\ UNCHANGED <<Stack, Shared>>

\* core.py:166-168  fx.send(FlushSink()), then the with block releases the
\* lock (the dummy lock's __exit__ does nothing); releasing a lock that is
\* not held raises RuntimeError out of the handler. Then the effect is
\* forwarded with its bar_id to the handler of the stack around, if any
OpenFlush(p) ==
    /\ w[p].pc = "open_flush"
    /\ IF LockObj = "dummy"
       THEN /\ w' = [w EXCEPT ![p].pc = "open_start"]
            /\ UNCHANGED <<locked, holder>>
       ELSE IF locked
       THEN /\ LockRelease
            /\ w' = [w EXCEPT ![p].pc = IF outer.on THEN "oo_lock" ELSE "open_start"]
       ELSE /\ w' = [w EXCEPT ![p] = OpenRaise(@, "RuntimeError")]
            /\ UNCHANGED <<locked, holder>>
    /\ UNCHANGED <<Frame, progressbars, updater_thread, updater_stop_event, upc>>

\* core.py:306-311, 349-351  only the background stack passes
\* progress_updater_start and progress_updater_stop
HasUpdater == mode = "bg"

\* core.py:170-171, 298-299  if progress_updater_start: the call;
\* _start_progress_updater: if updater_thread: return
OpenStart(p) ==
    /\ w[p].pc = "open_start"
    /\ w' = [w EXCEPT ![p] =
              IF ~HasUpdater \/ updater_thread # 0
              THEN OpenReturn(@)
              ELSE [@ EXCEPT !.pc = "open_new"]]
    /\ UNCHANGED <<Frame, Shared>>

\* a Thread object that does not exist (any more) and that updater_thread
\* does not name
FreeUpdaters == {u \in Updaters : upc[u] = "off" /\ updater_thread # u}

\* updater_thread = t: a Thread object that was created but never started
\* and that the variable named until now is dropped
Rebind(t) ==
    /\ updater_thread' = t
    /\ upc' = [u \in Updaters |->
                 IF u = t /\ t # 0 THEN "new"
                 ELSE IF u = updater_thread /\ upc[u] = "new" THEN "off"
                 ELSE upc[u]]

\* core.py:300-303  updater_thread = threading.Thread(...)
OpenNew(p) ==
    /\ w[p].pc = "open_new"
    /\ FreeUpdaters # {}
    /\ Rebind(CHOOSE x \in FreeUpdaters : \A y \in FreeUpdaters : x <= y)
    /\ w' = [w EXCEPT ![p].pc = "open_run"]
    /\ UNCHANGED <<Frame, progressbars, locked, holder, updater_stop_event>>

\* core.py:304  updater_thread.start() on what the variable names now: None
\* has no start (AttributeError), a thread that was started before cannot be
\* started again (RuntimeError)
OpenRun(p) ==
    /\ w[p].pc = "open_run"
    /\ IF updater_thread = 0
       THEN /\ w' = [w EXCEPT ![p] = OpenRaise(@, "AttributeError")]
            /\ UNCHANGED upc
       ELSE IF upc[updater_thread] # "new"
       THEN /\ w' = [w EXCEPT ![p] = OpenRaise(@, "RuntimeError")]
            /\ UNCHANGED upc
       ELSE /\ upc' = [upc EXCEPT ![updater_thread] = "wait"]
            /\ w' = [w EXCEPT ![p] = OpenReturn(@)]
    /\ UNCHANGED <<Frame, progressbars, locked, holder, updater_thread,
                   updater_stop_event>>

\* the handler itself, up to the test whether there is a thread to start
OpenHandler(p) ==
    \/ OpenLock(p) \/ OpenClear(p) \/ OpenInsert(p) \/ OpenWrite(p)
    \/ OpenFlush(p) \/ OpenStart(p)

Open(p) == OpenHandler(p) \/ OpenNew(p) \/ OpenRun(p)

----------------------------------------------------------------------------
\* CloseProgressBar handler (core.py:182-195) with _stop_progress_updater

\* core.py:183  with fx.send(GetProgressBarLock()): the blocking acquire
CloseLock(p) ==
    /\ w[p].pc = "close_lock"
    /\ Enter(p)
    /\ w' = [w EXCEPT ![p].pc = "close_clear"]
    /\ UNCHANGED <<Frame, progressbars, updater_thread, updater_stop_event, upc>>

\* core.py:184  fx.send(ClearProgressBars())
CloseClear(p) ==
    /\ w[p].pc = "close_clear"
    /\ w' = [w EXCEPT ![p].pc = "close_del", ![p].wrote = TRUE, ![p].ctl = TRUE,
                      ![p].pend = TRUE]
    /\ UNCHANGED <<Frame, Shared>>

\* core.py:186-189  if bar_id in progressbars: del progressbars[bar_id];
\* then, still inside the with block, the effect is forwarded to the handler
\* of the stack around, if any
CloseDel(p) ==
    /\ w[p].pc = "close_del"
    /\ progressbars' = DelBar(progressbars, w[p].bar_id)
    /\ w' = [w EXCEPT ![p].pc = IF outer.on THEN "oc_lock" ELSE "close_write"]
    /\ UNCHANGED <<Frame, locked, holder, updater_thread, updater_stop_event, upc>>

\* core.py:191  fx.send(WriteProgressBars())
CloseWrite(p) ==
    /\ w[p].pc = "close_write"
    /\ w' = [w EXCEPT ![p].pc = "close_flush", ![p].pend = FALSE]
    /\ WriteProgressBars
    /\ UNCHANGED <<Stack, Shared>>

\* core.py:192  fx.send(FlushSink()), then the with block releases the lock;
\* RuntimeError when the lock is not held: the stop step is skipped
CloseFlush(p) ==
    /\ w[p].pc = "close_flush"
    /\ IF LockObj = "dummy"
       THEN /\ w' = [w EXCEPT ![p].pc = "stop_check"]
            /\ UNCHANGED <<locked, holder>>
       ELSE IF locked
       THEN /\ LockRelease
            /\ w' = [w EXCEPT ![p].pc = "stop_check"]
       ELSE /\ w' = [w EXCEPT ![p] = PbEnd([@ EXCEPT !.exc = "RuntimeError"])]
            /\ UNCHANGED <<locked, holder>>
    /\ UNCHANGED <<Frame, progressbars, updater_thread, updater_stop_event, upc>>

\* mutant of StopCheck: _stop_progress_updater without the test of the
\* registry
StopCheckAlways(p) ==
    /\ w[p].pc = "stop_check"
    /\ w' = [w EXCEPT ![p] =
              IF ~HasUpdater THEN PbEnd(@) ELSE [@ EXCEPT !.pc = "stop_test"]]
    /\ UNCHANGED <<Frame, Shared>>

\* core.py:194-195, 288-289  if progress_updater_stop: the call;
\* _stop_progress_updater: if progressbar_dict: return
StopCheck(p) ==
    /\ w[p].pc = "stop_check"
    /\ w' = [w EXCEPT ![p] =
              IF ~HasUpdater \/ Len(progressbars) > 0 THEN PbEnd(@)
              ELSE [@ EXCEPT !.pc = "stop_test"]]
    /\ UNCHANGED <<Frame, Shared>>

\* core.py:290  if updater_thread is not None
StopTest(p) ==
    /\ w[p].pc = "stop_test"
    /\ w' = [w EXCEPT ![p].pc = IF updater_thread # 0 THEN "stop_set" ELSE "stop_clear"]
    /\ UNCHANGED <<Frame, Shared>>

\* core.py:291  updater_stop_event.set() wakes every thread that waits on
\* the event: its wait returns True and the thread leaves its loop
StopSet(p) ==
    /\ w[p].pc = "stop_set"
    /\ updater_stop_event' = TRUE
    /\ upc' = [u \in Updaters |-> IF upc[u] = "wait" THEN "off" ELSE upc[u]]
    /\ w' = [w EXCEPT ![p].pc = "stop_join"]
    /\ UNCHANGED <<Frame, progressbars, locked, holder, updater_thread>>

\* core.py:292  updater_thread.join(timeout=1.0): the thread has ended.  When
\* another stop has set updater_thread to None since the test of core.py:290,
\* None.join raises AttributeError; a thread that was never started cannot be
\* joined (RuntimeError)
StopJoin(p) ==
    /\ w[p].pc = "stop_join"
    /\ IF updater_thread = 0
       THEN w' = [w EXCEPT ![p] = PbEnd([@ EXCEPT !.exc = "AttributeError"])]
       ELSE IF upc[updater_thread] = "new"
       THEN w' = [w EXCEPT ![p] = PbEnd([@ EXCEPT !.exc = "RuntimeError"])]
       ELSE /\ upc[updater_thread] = "off"
            /\ w' = [w EXCEPT ![p].pc = "stop_clear"]
    /\ UNCHANGED <<Frame, Shared>>

\* core.py:292  updater_thread.join(timeout=1.0): the thread still runs when
\* the timeout has passed
StopJoinTimeout(p) ==
    /\ w[p].pc = "stop_join"
    /\ updater_thread # 0
    /\ upc[updater_thread] \notin {"off", "new"}
    /\ w' = [w EXCEPT ![p].pc = "stop_clear"]
    /\ UNCHANGED <<Frame, Shared>>

\* core.py:293  updater_stop_event.clear()
StopClear(p) ==
    /\ w[p].pc = "stop_clear"
    /\ updater_stop_event' = FALSE
    /\ w' = [w EXCEPT ![p].pc = "stop_none"]
    /\ UNCHANGED <<Frame, progressbars, locked, holder, updater_thread, upc>>

\* core.py:294  updater_thread = None
StopNone(p) ==
    /\ w[p].pc = "stop_none"
    /\ Rebind(0)
    /\ w' = [w EXCEPT ![p] = PbEnd(@)]
    /\ UNCHANGED <<Frame, progressbars, locked, holder, updater_stop_event>>

\* the handler itself, up to the test whether there is a thread to stop
CloseHandler(p) ==
    \/ CloseLock(p) \/ CloseClear(p) \/ CloseDel(p) \/ CloseWrite(p) \/ CloseFlush(p)
    \/ StopCheck(p)

Close(p) ==
    \/ CloseHandler(p)
    \/ StopTest(p) \/ StopSet(p) \/ StopJoin(p) \/ StopJoinTimeout(p)
    \/ StopClear(p) \/ StopNone(p)

----------------------------------------------------------------------------
\* _display_updater (core.py:279-284), the redraw thread

\* core.py:280  updater_stop_event.wait(interval): the interval passes with
\* the event unset, or the event is set and the loop ends
TickWait(u) ==
    /\ upc[u] = "wait"
    /\ upc' = [upc EXCEPT ![u] = IF updater_stop_event THEN "off" ELSE "t_lock"]
    /\ UNCHANGED <<Frame, progressbars, locked, holder, updater_thread,
                   updater_stop_event, w>>

\* core.py:281  with fx.send(GetProgressBarLock()): the blocking acquire
TickLock(u) ==
    /\ upc[u] = "t_lock"
    /\ LockAcquire(UAgent(u))
    /\ upc' = [upc EXCEPT ![u] = "t_clear"]
    /\ UNCHANGED <<Frame, progressbars, updater_thread, updater_stop_event, w>>

\* core.py:282  fx.safe_send(ClearProgressBars())
TickClear(u) ==
    /\ upc[u] = "t_clear"
    /\ upc' = [upc EXCEPT ![u] = "t_write"]
    /\ UNCHANGED <<Frame, progressbars, locked, holder, updater_thread,
                   updater_stop_event, w>>

\* core.py:283  fx.safe_send(WriteProgressBars())
TickWrite(u) ==
    /\ upc[u] = "t_write"
    /\ upc' = [upc EXCEPT ![u] = "t_flush"]
    /\ WriteProgressBars
    /\ UNCHANGED <<Stack, progressbars, locked, holder, updater_thread,
                   updater_stop_event, w>>

\* core.py:284  fx.safe_send(FlushSink()), then the with block releases the
\* lock; RuntimeError when the lock is not held ends the thread
TickFlush(u) ==
    /\ upc[u] = "t_flush"
    /\ IF locked
       THEN /\ LockRelease
            /\ upc' = [upc EXCEPT ![u] = "wait"]
       ELSE /\ upc' = [upc EXCEPT ![u] = "off"]
            /\ UNCHANGED <<locked, holder>>
    /\ UNCHANGED <<Frame, progressbars, updater_thread, updater_stop_event, w>>

Tick(u) == TickWait(u) \/ TickLock(u) \/ TickClear(u) \/ TickWrite(u) \/ TickFlush(u)

----------------------------------------------------------------------------
\* A background stack around the one text_writer installed.  Its handlers
\* get the effects the inner handlers forward (interpret_final=False);
\* GetProgressBarLock resolves to its lock for both stacks (core.py:240-242),
\* so `locked` is that one lock.  Its registry, updater_thread, stop event and
\* redraw threads are the fields of `outer`.

NotOuter == <<args, mode, interval_passed, progressbars, updater_thread,
              updater_stop_event, upc, screen, user>>

\* ghost name of a redraw thread of the stack around as a lock holder
OuterAgent(u) == 0 - (MaxUpdaters + u)

\* core.py:155  the forwarded OpenProgressBar: with fx.send(GetProgressBarLock())
OuterOpenLock(p) ==
    /\ w[p].pc = "oo_lock"
    /\ LockAcquire(p)
    /\ w' = [w EXCEPT ![p].pc = "oo_clear"]
    /\ UNCHANGED <<NotOuter, outer>>

\* core.py:156  fx.send(ClearProgressBars())
OuterOpenClear(p) ==
    /\ w[p].pc = "oo_clear"
    /\ w' = [w EXCEPT ![p].pc = "oo_insert"]
    /\ UNCHANGED <<Frame, Shared>>

\* core.py:158-163  bar_id = effect.bar_id; progressbars[bar_id] = ProgressBar(...)
OuterOpenInsert(p) ==
    /\ w[p].pc = "oo_insert"
    /\ outer' = [outer EXCEPT !.bars = PutBar(@, NewBar(w[p].bar_id))]
    /\ w' = [w EXCEPT ![p].pc = "oo_write"]
    /\ UNCHANGED <<NotOuter, locked, holder>>

\* core.py:165  fx.send(WriteProgressBars())
OuterOpenWrite(p) ==
    /\ w[p].pc = "oo_write"
    /\ w' = [w EXCEPT ![p].pc = "oo_flush"]
    /\ UNCHANGED <<Frame, Shared>>

\* core.py:166  fx.send(FlushSink()), then the with block releases the lock
OuterOpenFlush(p) ==
    /\ w[p].pc = "oo_flush"
    /\ IF locked
       THEN /\ LockRelease
            /\ w' = [w EXCEPT ![p].pc = "oo_start"]
       ELSE /\ w' = [w EXCEPT ![p] = OpenRaise(@, "RuntimeError")]
            /\ UNCHANGED <<locked, holder>>
    /\ UNCHANGED <<NotOuter, outer>>

\* core.py:170-171, 298-299  _start_progress_updater of the stack around;
\* its handler returns bar_id to the inner handler, which goes on at
\* core.py:170
OuterOpenStart(p) ==
    /\ w[p].pc = "oo_start"
    /\ w' = [w EXCEPT ![p].pc = IF outer.thread # 0 THEN "open_start" ELSE "oo_new"]
    /\ UNCHANGED <<Frame, Shared>>

FreeOuterUpdaters == {u \in OuterUpdaters : outer.upc[u] = "off" /\ outer.thread # u}

\* updater_thread = t in the stack around
OuterRebind(t) ==
    [outer EXCEPT !.thread = t,
                  !.upc = [u \in OuterUpdaters |->
                             IF u = t /\ t # 0 THEN "new"
                             ELSE IF u = outer.thread /\ outer.upc[u] = "new" THEN "off"
                             ELSE outer.upc[u]]]

\* core.py:300-303  updater_thread = threading.Thread(...)
OuterOpenNew(p) ==
    /\ w[p].pc = "oo_new"
    /\ FreeOuterUpdaters # {}
    /\ outer' = OuterRebind(CHOOSE x \in FreeOuterUpdaters :
                               \A y \in FreeOuterUpdaters : x <= y)
    /\ w' = [w EXCEPT ![p].pc = "oo_run"]
    /\ UNCHANGED <<NotOuter, locked, holder>>

\* core.py:304  updater_thread.start()
OuterOpenRun(p) ==
    /\ w[p].pc = "oo_run"
    /\ IF outer.thread = 0
       THEN /\ w' = [w EXCEPT ![p] = OpenRaise(@, "AttributeError")]
            /\ UNCHANGED outer
       ELSE IF outer.upc[outer.thread] # "new"
       THEN /\ w' = [w EXCEPT ![p] = OpenRaise(@, "RuntimeError")]
            /\ UNCHANGED outer
       ELSE /\ outer' = [outer EXCEPT !.upc[outer.thread] = "wait"]
            /\ w' = [w EXCEPT ![p].pc = "open_start"]
    /\ UNCHANGED <<NotOuter, locked, holder>>

OuterOpen(p) ==
    \/ OuterOpenLock(p) \/ OuterOpenClear(p) \/ OuterOpenInsert(p) \/ OuterOpenWrite(p)
    \/ OuterOpenFlush(p) \/ OuterOpenStart(p) \/ OuterOpenNew(p) \/ OuterOpenRun(p)

\* an exception leaves the handler of the stack around and passes through
\* the with block of the inner handler (core.py:183-192)
OuterRaise(r, e) == [r EXCEPT !.pc = "close_unwind", !.exc = e]

\* core.py:183  the forwarded CloseProgressBar: with
\* fx.send(GetProgressBarLock()), the blocking acquire of the lock that the
\* inner handler holds since core.py:183
OuterCloseLock(p) ==
    /\ w[p].pc = "oc_lock"
    /\ LockAcquire(p)
    /\ w' = [w EXCEPT ![p].pc = "oc_clear"]
    /\ UNCHANGED <<NotOuter, outer>>

\* core.py:184  fx.send(ClearProgressBars())
OuterCloseClear(p) ==
    /\ w[p].pc = "oc_clear"
    /\ w' = [w EXCEPT ![p].pc = "oc_del"]
    /\ UNCHANGED <<Frame, Shared>>

\* core.py:186-188  if bar_id in progressbars: del progressbars[bar_id]
OuterCloseDel(p) ==
    /\ w[p].pc = "oc_del"
    /\ outer' = [outer EXCEPT !.bars = DelBar(@, w[p].bar_id)]
    /\ w' = [w EXCEPT ![p].pc = "oc_write"]
    /\ UNCHANGED <<NotOuter, locked, holder>>

\* core.py:191  fx.send(WriteProgressBars())
OuterCloseWrite(p) ==
    /\ w[p].pc = "oc_write"
    /\ w' = [w EXCEPT ![p].pc = "oc_flush"]
    /\ UNCHANGED <<Frame, Shared>>

\* core.py:192  fx.send(FlushSink()), then the with block releases the lock
OuterCloseFlush(p) ==
    /\ w[p].pc = "oc_flush"
    /\ IF locked
       THEN /\ LockRelease
            /\ w' = [w EXCEPT ![p].pc = "os_check"]
       ELSE /\ w' = [w EXCEPT ![p] = OuterRaise(@, "RuntimeError")]
            /\ UNCHANGED <<locked, holder>>
    /\ UNCHANGED <<NotOuter, outer>>

\* core.py:194-195, 288-289  _stop_progress_updater of the stack around:
\* if progressbar_dict: return, back in the inner handler at core.py:191
OuterStopCheck(p) ==
    /\ w[p].pc = "os_check"
    /\ w' = [w EXCEPT ![p].pc = IF Len(outer.bars) > 0 THEN "close_write" ELSE "os_test"]
    /\ UNCHANGED <<Frame, Shared>>

\* core.py:290  if updater_thread is not None
OuterStopTest(p) ==
    /\ w[p].pc = "os_test"
    /\ w' = [w EXCEPT ![p].pc = IF outer.thread # 0 THEN "os_set" ELSE "os_clear"]
    /\ UNCHANGED <<Frame, Shared>>

\* core.py:291  updater_stop_event.set()
OuterStopSet(p) ==
    /\ w[p].pc = "os_set"
    /\ outer' = [outer EXCEPT !.event = TRUE,
                              !.upc = [u \in OuterUpdaters |->
                                         IF @[u] = "wait" THEN "off" ELSE @[u]]]
    /\ w' = [w EXCEPT ![p].pc = "os_join"]
    /\ UNCHANGED <<NotOuter, locked, holder>>

\* core.py:292  updater_thread.join(timeout=1.0): the thread has ended
OuterStopJoin(p) ==
    /\ w[p].pc = "os_join"
    /\ IF outer.thread = 0
       THEN w' = [w EXCEPT ![p] = OuterRaise(@, "AttributeError")]
       ELSE IF outer.upc[outer.thread] = "new"
       THEN w' = [w EXCEPT ![p] = OuterRaise(@, "RuntimeError")]
       ELSE /\ outer.upc[outer.thread] = "off"
            /\ w' = [w EXCEPT ![p].pc = "os_clear"]
    /\ UNCHANGED <<Frame, Shared>>

\* core.py:292  updater_thread.join(timeout=1.0): the timeout has passed
OuterStopJoinTimeout(p) ==
    /\ w[p].pc = "os_join"
    /\ outer.thread # 0
    /\ outer.upc[outer.thread] \notin {"off", "new"}
    /\ w' = [w EXCEPT ![p].pc = "os_clear"]
    /\ UNCHANGED <<Frame, Shared>>

\* core.py:293  updater_stop_event.clear()
OuterStopClear(p) ==
    /\ w[p].pc = "os_clear"
    /\ outer' = [outer EXCEPT !.event = FALSE]
    /\ w' = [w EXCEPT ![p].pc = "os_none"]
    /\ UNCHANGED <<NotOuter, locked, holder>>

\* core.py:294  updater_thread = None; the handler returns into the inner
\* handler at core.py:191
OuterStopNone(p) ==
    /\ w[p].pc = "os_none"
    /\ outer' = OuterRebind(0)
    /\ w' = [w EXCEPT ![p].pc = "close_write"]
    /\ UNCHANGED <<NotOuter, locked, holder>>

\* core.py:183  the with block of the inner handler is left by the exception
\* of the forwarded effect: __exit__ releases the lock, or raises
\* RuntimeError in its place when the lock is not held
CloseUnwind(p) ==
    /\ w[p].pc = "close_unwind"
    /\ IF locked
       THEN /\ LockRelease
            /\ w' = [w EXCEPT ![p] = PbEnd(@)]
       ELSE /\ w' = [w EXCEPT ![p] = PbEnd([@ EXCEPT !.exc = "RuntimeError"])]
            /\ UNCHANGED <<locked, holder>>
    /\ UNCHANGED <<NotOuter, outer>>

OuterClose(p) ==
    \/ OuterCloseLock(p) \/ OuterCloseClear(p) \/ OuterCloseDel(p) \/ OuterCloseWrite(p)
    \/ OuterCloseFlush(p) \/ OuterStopCheck(p) \/ OuterStopTest(p) \/ OuterStopSet(p)
    \/ OuterStopJoin(p) \/ OuterStopJoinTimeout(p) \/ OuterStopClear(p)
    \/ OuterStopNone(p) \/ CloseUnwind(p)

\* core.py:280  _display_updater of the stack around: updater_stop_event.wait
OuterTickWait(u) ==
    /\ outer.upc[u] = "wait"
    /\ outer' = [outer EXCEPT !.upc[u] = IF outer.event THEN "off" ELSE "t_lock"]
    /\ UNCHANGED <<NotOuter, locked, holder, w>>

\* core.py:281  with fx.send(GetProgressBarLock())
OuterTickLock(u) ==
    /\ outer.upc[u] = "t_lock"
    /\ LockAcquire(OuterAgent(u))
    /\ outer' = [outer EXCEPT !.upc[u] = "t_clear"]
    /\ UNCHANGED <<NotOuter, w>>

\* core.py:282  fx.safe_send(ClearProgressBars())
OuterTickClear(u) ==
    /\ outer.upc[u] = "t_clear"
    /\ outer' = [outer EXCEPT !.upc[u] = "t_write"]
    /\ UNCHANGED <<NotOuter, locked, holder, w>>

\* core.py:283  fx.safe_send(WriteProgressBars())
OuterTickWrite(u) ==
    /\ outer.upc[u] = "t_write"
    /\ outer' = [outer EXCEPT !.upc[u] = "t_flush"]
    /\ UNCHANGED <<NotOuter, locked, holder, w>>

\* core.py:284  fx.safe_send(FlushSink()), then the with block releases the
\* lock; RuntimeError when the lock is not held ends the thread
OuterTickFlush(u) ==
    /\ outer.upc[u] = "t_flush"
    /\ IF locked
       THEN /\ LockRelease
            /\ outer' = [outer EXCEPT !.upc[u] = "wait"]
       ELSE /\ outer' = [outer EXCEPT !.upc[u] = "off"]
            /\ UNCHANGED <<locked, holder>>
    /\ UNCHANGED <<NotOuter, w>>

OuterTick(u) ==
    \/ OuterTickWait(u) \/ OuterTickLock(u) \/ OuterTickClear(u) \/ OuterTickWrite(u)
    \/ OuterTickFlush(u)

\* a worker's steps inside progressbar() and the handlers it runs
Iterate(p, In) == Progressbar(p, In) \/ Open(p) \/ Close(p)

\* the steps of the workers PL, which call log(), of the workers PB, which
\* iterate progress bars with arguments from In, and of the redraw threads
NextOver(PL, PB, In) ==
    \/ \E p \in PL : Log(p)
    \/ \E p \in PB : Iterate(p, In)
    \/ \E p \in PL \cup PB : Return(p)
    \/ \E u \in Updaters : Tick(u)

\* one worker, every stack, every argument
Next ==
    \/ NextOver({1}, {1}, Inputs(MaxLen))
    \/ Redraw(1)
    \/ TimePasses

Spec == Init /\ [][Next]_vars

\* two logging workers, one of which also iterates, and the redraw threads
NextConc == NextOver(Procs, {1}, ConcInputs)

\* the stacks whose lock is a threading.Lock or that have none
RealArgs == {a \in AllArgs : text_writer(a) # "fg"}

SpecConc == InitOver(RealArgs) /\ [][NextConc]_vars

\* workers that only iterate, in parallel
NextRace ==
    \/ \E p \in Procs : Iterate(p, ConcInputs) \/ Return(p)
    \/ \E u \in Updaters : Tick(u)

SpecRace == InitOver(RealArgs) /\ [][NextRace]_vars

\* the stacks without a redraw thread
SyncArgs == {a \in AllArgs : text_writer(a) # "bg"}

\* one worker that runs the nested loops, under every stack
NextNest ==
    \/ Nested(1) \/ Open(1) \/ Close(1) \/ Redraw(1) \/ Return(1)
    \/ \E u \in Updaters : Tick(u)
    \/ TimePasses

SpecNest == Init /\ [][NextNest]_vars

\* two background stacks, one inside the other
InitStacked ==
    InitIn({a \in AllArgs : text_writer(a) = "bg"}, {BgOuter})

\* the steps of worker 1 once it has called progressbar()
StackedRun(p) ==
    \/ PbNext(p) \/ PbResume(p) \/ PbStop(p) \/ PbFinally(p)
    \/ Open(p) \/ Close(p) \/ OuterOpen(p) \/ OuterClose(p)

\* the steps of a log() call once it is made
LogRun(p) ==
    \/ LogAcquire(p) \/ LogAcquireTimeout(p) \/ LogClear(p) \/ LogSend(p)
    \/ LogWrite(p) \/ LogFlush(p) \/ LogFinally(p) \/ LogRelease(p) \/ Return(p)

\* inside the two stacks worker 1 iterates one progress bar and worker 2
\* calls log() any number of times, next to the redraw threads of both stacks
NextStacked ==
    \/ PbCall(1, ConcInputs) \/ StackedRun(1)
    \/ LogCall(2) \/ LogRun(2)
    \/ \E u \in Updaters : Tick(u)
    \/ \E u \in OuterUpdaters : OuterTick(u)

\* every thread that can take a step takes one in the end: the worker inside
\* progressbar(), a log() call under way, each redraw thread.  The worker is
\* never starved of the lock: its blocking acquire succeeds if the lock is
\* free again and again.  Calling progressbar() or log() is up to the
\* program and is never forced.
SpecStacked ==
    /\ InitStacked
    /\ [][NextStacked]_vars
    /\ SF_vars(StackedRun(1))
    /\ WF_vars(LogRun(2))
    /\ \A u \in Updaters : WF_vars(Tick(u))
    /\ \A u \in OuterUpdaters : WF_vars(OuterTick(u))

\* the stacks of a terminal
TtyArgs == {a \in AllArgs : text_writer(a) \in {"fg", "bg"}}

\* the set of a bar on show: a new value, total and description
ShowEffects == {[value |-> 2, total |-> 2, description |-> "X", start_time |-> None]}

\* under a terminal stack one worker opens up to MaxShown bars, updates them
\* and closes them in any order, next to the redraw threads
NextShow ==
    \/ DirectOpenIn(1, {}, MaxShown) \/ DirectSetIn(1, BarIds, ShowEffects)
    \/ DirectCloseIn(1, BarIds)
    \/ Open(1) \/ Close(1) \/ Redraw(1) \/ Return(1)
    \/ \E u \in Updaters : Tick(u)
    \/ TimePasses

SpecShow == InitShown(TtyArgs) /\ [][NextShow]_vars

\* user code installed a LogMessage handler inside the stack, if there is
\* one: add_prefix (__init__.py:20-29) or capture_effect
\* (tests/test_logging.py:20-25)
InitUser ==
    InitAll(AllArgs, {NoOuter}, {Blank},
            {[NoUser EXCEPT !.handler = h] : h \in {"add_prefix", "capture"}})

\* one worker calls the log functions; with no other thread about, no
\* acquire times out
NextUser ==
    \/ LogCallIn(1, LogFns) \/ LogAcquire(1) \/ LogClear(1) \/ LogSend(1)
    \/ LogWrite(1) \/ LogFlush(1) \/ LogFinally(1) \/ LogRelease(1) \/ Return(1)

SpecUser == InitUser /\ [][NextUser]_vars

\* log() under a stack whose lock, if any, is the dummy lock: the acquire
\* never times out and locked() is never true
LogSync(p) ==
    \/ LogCall(p) \/ LogAcquire(p) \/ LogClear(p) \/ LogSend(p) \/ LogWrite(p)
    \/ LogFlush(p) \/ LogFinally(p)

\* two logging workers, one of which also iterates, under a stack without a
\* redraw thread
NextFg ==
    \/ \E p \in Procs : LogSync(p) \/ Redraw(p) \/ Return(p)
    \/ Progressbar(1, ConcInputs) \/ OpenHandler(1) \/ CloseHandler(1)
    \/ TimePasses

SpecFg == InitOver(SyncArgs) /\ [][NextFg]_vars

\* one worker that sends the progress-bar effects itself, under a stack
\* without a redraw thread
NextFx ==
    \/ Direct(1) \/ OpenHandler(1) \/ CloseHandler(1) \/ Redraw(1) \/ Return(1)
    \/ TimePasses

SpecFx == InitOver(SyncArgs) /\ [][NextFx]_vars

----------------------------------------------------------------------------
\* Observations used by the properties

IsPrefix(s, t) == Len(s) <= Len(t) /\ \A i \in 1..Len(s) : s[i] = t[i]

Range(s) == {s[i] : i \in 1..Len(s)}

\* between its ClearProgressBars and the end of its FlushSink
InRegionW(p) ==
    w[p].pc \in {"log_send", "log_write", "log_flush",
                 "open_insert", "open_write", "open_flush",
                 "close_del", "close_write", "close_flush",
                 "set_write", "set_flush"}

InRegionU(u) == upc[u] \in {"t_write", "t_flush"}

InRegion == {p \in Procs : InRegionW(p)} \cup {UAgent(u) : u \in {x \in Updaters : InRegionU(x)}}

\* inside the OpenProgressBar or CloseProgressBar handler
InHandler(p) ==
    w[p].pc \in {"open_lock", "open_clear", "open_insert", "open_write", "open_flush",
                 "open_start", "open_new", "open_run",
                 "close_lock", "close_clear", "close_del", "close_write", "close_flush",
                 "stop_check", "stop_test", "stop_set", "stop_join", "stop_clear",
                 "stop_none"}

Running == {u \in Updaters : upc[u] \notin {"off", "new"}}

\* the steps of a complete log() call, without the release
LogSteps(lk) ==
    IF lk = "none" THEN <<"getlock", "clear", "logmsg", "write", "flush">>
    ELSE <<"getlock", "acquire", "clear", "logmsg", "write", "flush">>

----------------------------------------------------------------------------
\* Properties

\* C1: under the background policy no two of log emission, bar open, bar
\* close and redraw tick are at the same time between their clear and the
\* end of their flush.
C1_RegionSerialized == mode = "bg" => Cardinality(InRegion) <= 1

\* C2: a log() call whose bounded acquire timed out does not release the
\* lock: a step of its release statement that frees the lock is taken only
\* by a call whose own acquire succeeded.
C2_ReleaseOnlyOwn ==
    [][\A p \in Procs :
         (w[p].pc = "log_release" /\ w'[p].pc = "done" /\ locked /\ ~locked')
            => w[p].got]_vars

\* C3: an iteration whose OpenProgressBar returned an identifier emits
\* CloseProgressBar exactly once by the time it has ended (exhaustion, the
\* consumer raising, the consumer stopping early), never twice, and an
\* iteration that got no identifier emits none.
C3_CloseOncePerOpen ==
    \A p \in Procs :
        /\ w[p].closes <= 1
        /\ w[p].closes = 1 => w[p].opened
        /\ (w[p].pc = "done" /\ w[p].opened) => w[p].closes = 1

C3_Witness ==
    \E p \in Procs : w[p].pc = "done" /\ w[p].opened /\ w[p].end = "raise"
                     /\ w[p].closes = 1 /\ Len(w[p].out) = 1 /\ Len(w[p].src) = 2

\* C4: the steps of one log() call happen in the order get lock, acquire
\* (when a lock was supplied), clear, LogMessage, write, flush, release: the
\* steps taken so far are a prefix of that order, with the release either
\* after the flush or, when the LogMessage handler raised, after LogMessage;
\* a call whose message the handler accepts (or that has no handler) has
\* taken them all when it ends.
C4_LogOrder ==
    \A p \in Procs :
        LET s == w[p].steps
            full == LogSteps(w[p].lk)
        IN  w[p].op = "log" =>
              /\ \/ IsPrefix(s, full)
                 \/ /\ s[Len(s)] = "release"
                    /\ IsPrefix(SubSeq(s, 1, Len(s) - 1), full)
                    /\ "logmsg" \in Range(s)
                    /\ "flush" \notin Range(s) => w[p].exc # "none"
              /\ (w[p].pc = "done" /\ (w[p].isStr \/ ~HasHandler("LogMessage")))
                    => IsPrefix(full, s)

C4_Witness ==
    \E p \in Procs : w[p].pc = "done" /\ w[p].op = "log" /\ w[p].result = "returned"
                     /\ w[p].steps = <<"getlock", "acquire", "clear", "logmsg",
                                       "write", "flush", "release">>

C6_TimeoutStillReturns ==
    \A p \in Procs :
        (w[p].pc = "done" /\ w[p].op = "log" /\ w[p].lk = "real" /\ ~w[p].got
           /\ w[p].isStr)
          => /\ w[p].result = "returned"
             /\ IsPrefix(LogSteps("real"), w[p].steps)

\* C7: without a handler for OpenProgressBar, progressbar(seq) yields the
\* elements of seq in order (all of them when the consumer takes them all),
\* emits no SetProgressBar and no CloseProgressBar and writes nothing.
C7_PassThrough ==
    \A p \in Procs :
        (w[p].op = "pb" /\ ~HasHandler("OpenProgressBar")) =>
            /\ IsPrefix(w[p].out, w[p].src)
            /\ (w[p].pc = "done" /\ w[p].end = "exhaust") => w[p].out = w[p].src
            /\ w[p].sets = 0
            /\ w[p].closes = 0
            /\ ~w[p].wrote
            /\ progressbars = <<>>

C7_Witness ==
    \E p \in Procs : w[p].op = "pb" /\ ~HasHandler("OpenProgressBar")
                     /\ w[p].pc = "done" /\ w[p].end = "exhaust"
                     /\ w[p].out = <<2, 1>>

\* C8: log() without a LogMessage handler does not raise, warns exactly
\* once, and goes on with WriteProgressBars, FlushSink and the release.
C8_WarnOnce ==
    \A p \in Procs :
        (w[p].op = "log" /\ ~HasHandler("LogMessage")) =>
            /\ w[p].warned <= 1
            /\ w[p].exc = "none"
            /\ "logmsg" \in Range(w[p].steps) => w[p].warned = 1
            /\ w[p].pc = "done" =>
                 /\ w[p].result = "returned"
                 /\ w[p].warned = 1
                 /\ IsPrefix(LogSteps(w[p].lk), w[p].steps)
                 /\ holder # p

C8_Witness ==
    \E p \in Procs : w[p].op = "log" /\ ~HasHandler("LogMessage")
                     /\ w[p].pc = "done" /\ w[p].warned = 1
                     /\ w[p].result = "returned"

\* C9: under the background policy at most one redraw thread runs at any
\* time.
C9_OneRedrawThread == mode = "bg" => Cardinality(Running) <= 1

\* C10: under the background policy, whenever the registry holds a bar and
\* no OpenProgressBar or CloseProgressBar handler is in progress, a redraw
\* thread is running.
C10_ThreadWhileBars ==
    (mode = "bg" /\ Len(progressbars) > 0 /\ \A p \in Procs : ~InHandler(p))
        => Running # {}

\* C11: under the background policy, when an iteration has ended with its
\* CloseProgressBar handler and stop path run to the end, the registry is
\* empty and no OpenProgressBar or CloseProgressBar handler (with its start
\* or stop path) is in progress, the running state is cleared: updater_thread
\* is None and the stop event is clear, whether the join ended in time or
\* timed out.
C11_StopClearsRunningState ==
    (/\ mode = "bg"
     /\ Len(progressbars) = 0
     /\ \A p \in Procs : ~InHandler(p)
     /\ \E p \in Procs : /\ w[p].pc = "done" /\ w[p].op = "pb" /\ w[p].opened
                         /\ w[p].end = "exhaust" /\ w[p].exc = "none")
        => (updater_thread = 0 /\ ~updater_stop_event)

\* the stored state of the bar a SetProgressBar named, after its handler
NewState(p) == GetBar(progressbars, w[p].bar_id)

\* a SetProgressBar sent by user code was handled
SetDone(p) == w[p].op = "fx_set" /\ w[p].pc = "done" /\ w[p].exc = "none"

\* C12: a SetProgressBar never changes a field it does not specify: each
\* field that is None in the effect has its prior value after the handler,
\* and the identifier stays.
C12_SetKeepsAbsent ==
    \A p \in Procs :
        SetDone(p) =>
            /\ NewState(p).bar_id = w[p].old.bar_id
            /\ w[p].eff.value = None => NewState(p).value = w[p].old.value
            /\ w[p].eff.total = None => NewState(p).total = w[p].old.total
            /\ w[p].eff.description = NoneStr
                  => NewState(p).description = w[p].old.description
            /\ w[p].eff.start_time = None
                  => NewState(p).start_time = w[p].old.start_time

C12_Witness ==
    \E p \in Procs : /\ SetDone(p)
                     /\ w[p].old.description = "X" /\ w[p].old.total = 2
                     /\ w[p].eff = [value |-> 2, total |-> None, description |-> NoneStr,
                                    start_time |-> None]
                     /\ NewState(p).description = "X" /\ NewState(p).value = 2
                     /\ NewState(p).total = 2

\* C13: a SetProgressBar replaces every field it provides: each field that
\* is not None in the effect (0 and the empty string included) is the stored
\* value after the handler.
C13_SetStoresProvided ==
    \A p \in Procs :
        SetDone(p) =>
            /\ w[p].eff.value # None => NewState(p).value = w[p].eff.value
            /\ w[p].eff.total # None => NewState(p).total = w[p].eff.total
            /\ w[p].eff.description # NoneStr
                  => NewState(p).description = w[p].eff.description
            /\ w[p].eff.start_time # None
                  => NewState(p).start_time = w[p].eff.start_time

\* C14: under the foreground policy no two of log emission, bar open, bar
\* close and inline redraw after a set are at the same time between their
\* clear and the end of their flush.
C14_ForegroundSerialized == mode = "fg" => Cardinality(InRegion) <= 1

\* C17: when the consumer raises while it processes the j-th item, the
\* items handed out are exactly the first j of the source and the source was
\* asked for no further item; when the iteration has ended, the caller has
\* the consumer's exception and, if the bar was opened, its CloseProgressBar
\* was emitted once.
C17_ConsumerErrorPropagates ==
    \A p \in Procs :
        (w[p].op = "pb" /\ w[p].end = "raise") =>
            /\ w[p].pos = Len(w[p].out) + 1
            /\ w[p].out = SubSeq(w[p].src, 1, Len(w[p].out))
            /\ Len(w[p].out) >= 1
            /\ w[p].pc = "done" =>
                 /\ w[p].result = "raised"
                 /\ w[p].exc = "ConsumerError"
                 /\ w[p].opened => w[p].closes = 1

C17_Witness ==
    \E p \in Procs : /\ w[p].op = "pb" /\ w[p].end = "raise" /\ w[p].pc = "done"
                     /\ w[p].opened /\ w[p].closes = 1
                     /\ w[p].src = <<1, 2>> /\ w[p].out = <<1, 2>>
                     /\ w[p].exc = "ConsumerError"

\* C18: with a sink that is no terminal, iterating a progress bar, also
\* while other log() calls run, raises nothing but the consumer's own
\* exception, stores no bar, starts no redraw thread and writes nothing:
\* only log() calls write to the sink, and none writes a cursor or erase
\* sequence or a bar.
C18_FileSinkLogLinesOnly ==
    mode = "file" =>
        /\ progressbars = <<>>
        /\ Running = {}
        /\ \A p \in Procs :
            /\ ~w[p].ctl
            /\ w[p].wrote => w[p].op = "log"
            /\ w[p].op = "pb" =>
                 /\ w[p].exc \in {"none", "ConsumerError"}
                 /\ w[p].exc = "ConsumerError" => w[p].end = "raise"
                 /\ (w[p].pc = "done" /\ w[p].end # "raise") => w[p].result = "returned"

C18_Witness ==
    /\ mode = "file"
    /\ w[1].op = "pb" /\ w[1].pc = "done" /\ w[1].end = "exhaust"
    /\ w[1].out = <<2>> /\ ~w[1].wrote
    /\ w[2].op = "log" /\ w[2].pc = "done" /\ w[2].wrote /\ ~w[2].ctl

\* C19: under the stack of a sink that is no terminal, OpenProgressBar,
\* SetProgressBar and CloseProgressBar sent with fx.send are accepted: none
\* of them ends with NoHandlerError.
C19_FileStackAccepts ==
    mode = "file" =>
        \A p \in Procs :
            w[p].op \in {"fx_open", "fx_set", "fx_close"}
                => (w[p].exc # "NoHandlerError" /\ w[p].openErr = "none")

\* a worker is inside the inline redraw of the foreground policy
InlineRedraw ==
    \E p \in Procs : w[p].pc \in {"set_check", "set_clear", "set_write", "set_flush"}

\* a redraw thread exists: created, running, or named by updater_thread
ThreadExists == updater_thread # 0 \/ \E u \in Updaters : upc[u] # "off"

\* C20: text_writer gives a sink that is no terminal neither redraw policy
\* (no inline redraw, no redraw thread), a terminal the foreground policy
\* (no redraw thread ever exists) unless progressbar_async is passed as
\* True, and then the background policy (no inline redraw).
C20_PolicySelection ==
    /\ ~args.installed => mode = "none"
    /\ (args.installed /\ ~args.isatty)
          => (mode = "file" /\ ~InlineRedraw /\ ~ThreadExists)
    /\ (args.installed /\ args.isatty /\ args.progressbar_async # "True")
          => (mode = "fg" /\ ~ThreadExists)
    /\ (args.installed /\ args.isatty /\ args.progressbar_async = "True")
          => (mode = "bg" /\ ~InlineRedraw)

C20_Witness ==
    /\ args.installed /\ args.isatty /\ args.progressbar_async = "omitted"
    /\ w[1].op = "pb" /\ w[1].pc = "set_write" /\ Len(progressbars) = 1
    /\ ~ThreadExists

\* the pairs of every item of S with every item of T, S-major
RowMajor(S, T) ==
    [n \in 1..(Len(S) * Len(T)) |->
        <<S[((n - 1) \div Len(T)) + 1], T[((n - 1) % Len(T)) + 1]>>]

\* C16: under every stack progressbar(seq) hands out the elements of seq in
\* order, all of them when the consumer takes them all, also when bars are
\* nested: the pairs collected by an outer loop over 2 items with an inner
\* loop over 3 items are, as long as no loop was left early, a prefix of the
\* 6 pairs in row-major order, and all 6 when the outer loop is exhausted.
C16_YieldsInOrder ==
    \A p \in Procs :
        w[p].op = "pb" =>
            /\ IsPrefix(w[p].out, w[p].src)
            /\ (w[p].pc = "done" /\ w[p].end = "exhaust") => w[p].out = w[p].src
            /\ (w[p].saved = <<>> /\ ~w[p].cut) =>
                 /\ IsPrefix(w[p].pairs, RowMajor(w[p].src, InnerSrc))
                 /\ (w[p].pc = "done" /\ w[p].end = "exhaust")
                       => w[p].pairs = RowMajor(w[p].src, InnerSrc)

C16_Witness ==
    \E p \in Procs :
        /\ mode = "bg" /\ w[p].op = "pb" /\ w[p].saved = <<>> /\ w[p].pc = "done"
        /\ w[p].end = "exhaust"
        /\ w[p].pairs = <<<<1, 1>>, <<1, 2>>, <<1, 3>>, <<2, 1>>, <<2, 2>>, <<2, 3>>>>

\* the statements at which a worker waits for the lock without a timeout
LockWaits == {"open_lock", "close_lock", "oo_lock", "oc_lock"}

\* C15: with two background stacks nested, which share the lock of the outer
\* one, a worker that opens and closes a progress bar never waits forever
\* for the shared lock: whenever it is at a blocking acquire of the lock
\* (of the inner handler or of the handler the effect is forwarded to), it
\* later gets past it.
C15_LockWaitEnds ==
    \A p \in Procs : (w[p].pc \in LockWaits) ~> (w[p].pc \notin LockWaits)

\* the identifiers of the bars of a registry, and of the bars whose lines
\* are on the screen, in their order
Ids(bars) == [i \in 1..Len(bars) |-> bars[i].bar_id]

ShownIds == [i \in 1..Len(screen.shown) |-> screen.shown[i].of]

\* C21: every step that changes the lines of the progress region leaves the
\* lines of exactly the bars of the registry, one line per bar, in registry
\* order; and every step leaves the registry's order as it is, puts one new
\* bar last (an open) or takes one bar out (a close), so that the registry
\* order is the order of opening whatever was set or closed in between.
C21_ShownInOpeningOrder ==
    [][/\ screen.shown' # screen.shown => ShownIds' = Ids(progressbars)
       /\ Cardinality(Range(Ids(progressbars'))) = Len(progressbars')
       /\ LET a == Ids(progressbars)
              b == Ids(progressbars')
          IN  \/ b = a
              \/ \E id \in BarIds \ Range(a) : b = Append(a, id)
              \/ \E id \in Range(a) : b = SelectSeq(a, LAMBDA x : x # id)]_vars

\* three bars were opened, one was updated, the second was closed: the first
\* and the third are on the screen in this order, with the update
C21_Witness ==
    /\ Ids(progressbars) = <<1, 3>>
    /\ ShownIds = <<1, 3>>
    /\ \E i \in 1..2 : screen.shown[i].value = 2
    /\ w[1].op = "fx_close" /\ w[1].pc = "done"

\* C22: a LogMessage goes first to the handler that user code installed
\* inside text_writer: when that one is add_prefix, which forwards a modified
\* message, the handler of text_writer writes the modified message, once,
\* and nothing else; when it is capture_effect, which does not forward, the
\* handler of text_writer writes nothing.
C22_InnermostFirst ==
    \A p \in Procs :
        (w[p].op = "log" /\ w[p].pc \in {"log_write", "log_flush", "log_fin",
                                         "log_release", "done"})
        => /\ (user.handler = "add_prefix" /\ HasHandler("LogMessage"))
                => w[p].lines = <<[message |-> [text |-> <<"[APP] ", "m">>, str |-> TRUE],
                                   level |-> w[p].level]>>
           /\ user.handler = "capture" => w[p].lines = <<>>

\* a call of log_error with a message that is no str has ended under
\* add_prefix inside text_writer, its one line written
C22_Witness ==
    /\ user.handler = "add_prefix"
    /\ mode = "file"
    /\ w[1].op = "log" /\ w[1].pc = "done" /\ w[1].result = "returned"
    /\ ~w[1].isStr
    /\ w[1].level = "ERROR"
    /\ Len(w[1].lines) = 1

\* the state that the handlers share: registry, lock, redraw thread, screen
NoChange ==
    UNCHANGED <<progressbars, locked, holder, updater_thread, updater_stop_event,
                upc, screen>>

\* the effect kind that a statement of log() sends with fx.safe_send
SafeKind(pc) ==
    CASE pc = "log_clear" -> "ClearProgressBars"
      [] pc = "log_write" -> "WriteProgressBars"
      [] pc = "log_flush" -> "FlushSink"

\* C23: fx.send of an effect without handler fails with NoHandlerError
\* (OpenProgressBar in progressbar(), LogMessage in log(), where it is turned
\* into pass-through and into a warning), fx.safe_send of an effect without
\* handler gives None and the call goes on without exception; neither
\* changes registry, lock, redraw thread or screen.
C23_NoHandlerOutcomes ==
    [][/\ (w[1].pc = "idle" /\ w'[1].op = "pb" /\ ~HasHandler("OpenProgressBar"))
            => (w'[1].openErr = "NoHandlerError" /\ NoChange)
       /\ (w[1].pc = "log_send" /\ LogChain = <<>> /\ w'[1].pc # "log_send")
            => (w'[1].warned = w[1].warned + 1 /\ w'[1].exc = "none" /\ NoChange)
       /\ (w[1].pc = "idle" /\ w'[1].op = "log" /\ ~HasHandler("GetProgressBarLock"))
            => (w'[1].lk = "none" /\ w'[1].exc = "none" /\ NoChange)
       /\ (w[1].pc \in {"log_clear", "log_write", "log_flush"}
             /\ w'[1].pc # w[1].pc /\ ~HasHandler(SafeKind(w[1].pc)))
            => (w'[1].exc = "none" /\ w'[1].pc # "done" /\ NoChange)]_vars

\* without any stack a log() call went through all its safe sends and ended
\* with its warning, and the state of no stack is as it was
C23_Witness ==
    /\ mode = "none"
    /\ w[1].op = "log" /\ w[1].pc = "done" /\ w[1].exc = "none"
    /\ w[1].warned = 1
    /\ w[1].steps = <<"getlock", "clear", "logmsg", "write", "flush">>
    /\ progressbars = <<>> /\ ~locked /\ screen = Blank

\* the level that each log function stands for
Expected(fn) ==
    CASE fn = "log_debug" -> "DEBUG"
      [] fn = "log_info" -> "INFO"
      [] fn = "log_warning" -> "WARNING"
      [] fn = "log_error" -> "ERROR"

\* C24: the handler has recorded one LogMessage for each call that has sent
\* its effect, in the order of the calls, each with the message as passed
\* and with the level of the function called.
C24_OneEffectPerCall ==
    user.handler = "capture" =>
        LET sent == user.effects_sent
            pending == IF w[1].op = "log"
                          /\ w[1].pc \in {"log_acquire", "log_clear", "log_send"}
                       THEN 1 ELSE 0
        IN  /\ Len(sent) + pending = Len(user.calls)
            /\ \A i \in 1..Len(sent) :
                 sent[i] = [message |-> [text |-> <<"m">>, str |-> user.calls[i].isStr],
                            level |-> Expected(user.calls[i].fn)]

\* log_debug, log_warning and log_error were called in this order and the
\* handler has their three effects
C24_Witness ==
    /\ user.handler = "capture"
    /\ Len(user.calls) = 3
    /\ [i \in 1..3 |-> user.calls[i].fn] = <<"log_debug", "log_warning", "log_error">>
    /\ Len(user.effects_sent) = 3
    /\ w[1].pc = "done"

\* the levels from the least to the most severe
Severity == <<"DEBUG", "INFO", "WARNING", "ERROR">>

Rank(l) == CHOOSE i \in 1..4 : Severity[i] = l

\* C25: any two levels that log calls have carried compare as DEBUG < INFO <
\* WARNING < ERROR, and their values are 0, 10, 50 and 100.
C25_LevelOrder ==
    \A i, j \in 1..Len(user.effects_sent) :
        LET a == user.effects_sent[i].level
            b == user.effects_sent[j].level
        IN  /\ LevelLess(a, b) <=> Rank(a) < Rank(b)
            /\ LogLevel[a] = <<0, 10, 50, 100>>[Rank(a)]

\* the handler has effects of three different levels
C25_Witness ==
    /\ Len(user.effects_sent) = 3
    /\ {user.effects_sent[i].level : i \in 1..3} = {"INFO", "WARNING", "ERROR"}

\* C26: no operation of a worker (log call, bar open, bar close, inline
\* redraw of a set) ends with a ClearProgressBars of its own that no
\* WriteProgressBars of its own followed.  (A redraw thread goes from its
\* clear to its write in every case.)
C26_ClearThenWrite ==
    \A p \in Procs : w[p].pc = "done" => ~w[p].pend

\* a background stack alone, its sink watched
BgArgs == {a \in AllArgs : text_writer(a) = "bg"}

InitWatch == InitAll(BgArgs, {NoOuter}, {Watched}, {NoUser})

\* the steps of progressbar() and of the handlers it runs, once called
HandlerRun(p) == PbNext(p) \/ PbFinally(p) \/ Open(p) \/ Close(p)

\* the steps of the loop that consumes progressbar(): ask for the next item,
\* or raise or break
ConsumerRun(p) == PbResume(p) \/ PbStop(p)

\* worker 1 iterates one progress bar and worker 2 calls log() any number
\* of times, next to the redraw threads
NextWatch ==
    \/ PbCall(1, ConcInputs) \/ HandlerRun(1) \/ ConsumerRun(1)
    \/ LogCall(2) \/ LogRun(2)
    \/ \E u \in Updaters : Tick(u)

\* every thread that can take a step takes one in the end, and a thread
\* that waits for the lock gets it if it is free again and again.  Calling
\* progressbar() or log() is up to the program, and so is how long the
\* consumer keeps an item before it asks for the next.
SpecWatch ==
    /\ InitWatch
    /\ [][NextWatch]_vars
    /\ SF_vars(HandlerRun(1))
    /\ SF_vars(LogRun(2))
    /\ \A u \in Updaters : SF_vars(Tick(u))

\* a step that runs the ClearProgressBars handler of the sink
ClearStep ==
    /\ HasHandler("ClearProgressBars")
    /\ \/ \E p \in Procs :
            /\ w[p].pc \in {"log_clear", "open_clear", "close_clear", "set_clear"}
            /\ w'[p].pc # w[p].pc
       \/ \E u \in Updaters : upc[u] = "t_clear" /\ upc'[u] # "t_clear"

\* C28: whenever the region is cleared, the registry has as many bars as
\* the last WriteProgressBars rendered (the cursor moves up by the lines
\* written).
C28_ClearMatchesWrite ==
    [][ClearStep => Len(progressbars) = Len(screen.shown)]_vars


\* the sink shows something else than the open bars as they are now
Stale == progressbars # <<>> /\ screen.shown # progressbar_strings(progressbars)

\* C30: under the background stack with fair scheduling, whenever the
\* registry holds bars that the sink does not show as they are, a
\* WriteProgressBars that renders them follows, or the bars are closed.
C30_RepaintFollows == Stale ~> ~Stale

\* the pcs of the inline repaint of _update_progressbars (core.py:343-346)
InlineRepaint == {"set_clear", "set_write", "set_flush"}

WholeRun(r) ==
    [i \in 1..(1 + 3 * Len(r.src)) |->
       IF i = 1 THEN Did("Open", NoFields, 0)
       ELSE LET j == (i - 2) \div 3
                m == (i - 2) % 3
            IN IF m = 0 THEN Did("Set", [value |-> j, total |-> r.total,
                                         description |-> r.desc], 0)
               ELSE IF m = 1 THEN Did("Yield", NoFields, r.src[j + 1])
               ELSE Did("Set", [value |-> j + 1, total |-> r.total,
                                description |-> r.desc], 0)]

IsClosed(r) == r.trace # <<>> /\ r.trace[Len(r.trace)].kind = "Close"

BeforeClose(r) ==
    IF IsClosed(r) THEN SubSeq(r.trace, 1, Len(r.trace) - 1) ELSE r.trace

\* C27: what progressbar() emits for a bar it opened is Open, then per item k
\* (from 0) SetProgressBar(value=k, total, description), the item,
\* SetProgressBar(value=k+1), and Close last: nothing follows the Close, a
\* finished call has closed, a consumer that took every item got the whole
\* run, and a consumer that raised or broke at item k got no Set(k+1): the
\* item is the last thing before the Close.
C27_EffectOrder ==
    \A p \in Procs :
      (w[p].op = "pb" /\ w[p].opened) =>
        LET r == w[p]
            b == BeforeClose(r)
        IN /\ Len(b) <= 1 + 3 * Len(r.src)
           /\ \A i \in 1..Len(b) : b[i] = WholeRun(r)[i]
           /\ r.pc = "done" => IsClosed(r)
           /\ (IsClosed(r) /\ r.end = "exhaust" /\ r.exc = "none")
                  => Len(b) = 1 + 3 * Len(r.src)
           /\ (IsClosed(r) /\ r.end \in {"raise", "break"})
                  => b[Len(b)].kind = "Yield"

\* a consumer stopped at the second item of a closed bar
C27_Witness ==
    \E p \in Procs :
      /\ w[p].pc = "done" /\ w[p].op = "pb" /\ w[p].opened
      /\ w[p].end \in {"raise", "break"}
      /\ Len(w[p].trace) = 7

\* the pcs of a worker inside the CloseProgressBar handler and
\* _stop_progress_updater
ClosePath ==
    {"close_lock", "close_clear", "close_del", "close_write", "close_flush",
     "stop_check", "stop_test", "stop_set", "stop_join", "stop_clear", "stop_none"}

\* C31: a step of the CloseProgressBar handler (with _stop_progress_updater)
\* that leaves bars in the registry changes neither the redraw thread nor
\* the stop event, and while bars are open and no handler is at work the
\* thread that was started runs.
C31_CloseKeepsThread ==
    [][/\ \A p \in Procs :
            (w[p].pc \in ClosePath /\ w'[p] # w[p] /\ progressbars' # <<>>)
              => /\ updater_thread' = updater_thread
                 /\ updater_stop_event' = updater_stop_event
                 /\ upc' = upc
       /\ (mode = "bg" /\ progressbars # <<>> /\ \A p \in Procs : w[p].pc \in {"idle", "done"})
              => (updater_thread # 0 /\ upc[updater_thread] \notin {"off", "new"}
                  /\ ~updater_stop_event)
      ]_vars

\* one of two open bars was closed: the other is left and the thread runs
C31_Witness ==
    /\ mode = "bg"
    /\ w[1].pc = "done" /\ w[1].op = "fx_close" /\ w[1].exc = "none"
    /\ ~HasBar(progressbars, w[1].bar_id)
    /\ Len(progressbars) = 1
    /\ updater_thread # 0 /\ upc[updater_thread] # "off"

\* a step in which worker p sends a SetProgressBar to the registry handler:
\* directly, or from progressbar() before or after an item
SetStep(p) ==
    \/ w[p].pc = "idle" /\ w'[p].pc # "idle" /\ w'[p].op = "fx_set"
    \/ w[p].op = "pb" /\ w'[p].op = "pb" /\ w'[p].sets = w[p].sets + 1

\* worker p is inside the with block of the lock it got from
\* GetProgressBarLock; with a threading.Lock, the lock is held and was
\* taken by p
HoldsRegion(p) == LockObj = "real" => (locked /\ holder = p)

\* C32: a SetProgressBar leaves the keys of the registry and the state of
\* every other bar as they are, leaves the lock alone and, in the
\* background stack, the sink too; the keys of the registry change only at
\* the insert of an open handler or the delete of a close handler, by a
\* worker that holds the region lock.
C32_SetFrame ==
    [][/\ \A p \in Procs :
            SetStep(p) =>
              /\ Ids(progressbars') = Ids(progressbars)
              /\ \A i \in 1..Len(progressbars) :
                    progressbars[i].bar_id # w'[p].bar_id
                      => progressbars'[i] = progressbars[i]
              /\ locked' = locked /\ holder' = holder
              /\ mode = "bg" => screen' = screen
       /\ Ids(progressbars') # Ids(progressbars)
            => \E p \in Procs :
                 /\ w[p].pc \in {"open_insert", "close_del"}
                 /\ w'[p].pc # w[p].pc
                 /\ HoldsRegion(p)
      ]_vars

\* the pcs of a worker inside the with block of the OpenProgressBar handler
OpenRegion == {"open_clear", "open_insert", "open_write", "open_flush"}

\* C33: the open handler stores the new state, with value 0, under the
\* identifier that was given, or under one that no open bar has when none
\* was given, and leaves the other bars as they are; the insert comes after
\* the clear and before the write, the worker holds the region lock from the
\* clear to the flush, and the handler returns the identifier of the insert,
\* under which the state is stored.
C33_OpenInserts ==
    [][\A p \in Procs :
         /\ w[p].pc \in OpenRegion => HoldsRegion(p)
         /\ (w[p].pc = "open_insert" /\ w'[p].pc # "open_insert")
              => LET id == w'[p].bar_id IN
                 /\ w[p].bar_id # 0 => id = w[p].bar_id
                 /\ w[p].bar_id = 0 => ~HasBar(progressbars, id)
                 /\ id # 0
                 /\ HasBar(progressbars', id)
                 /\ GetBar(progressbars', id).value = 0
                 /\ \A i \in 1..Len(progressbars) :
                       progressbars[i].bar_id # id
                         => /\ HasBar(progressbars', progressbars[i].bar_id)
                            /\ GetBar(progressbars', progressbars[i].bar_id) = progressbars[i]
                 /\ w[p].pend /\ w'[p].pc = "open_write"
         /\ (~w[p].opened /\ w'[p].opened)
              => /\ w'[p].bar_id = w[p].bar_id
                 /\ HasBar(progressbars', w'[p].bar_id)
      ]_vars

\* in a background stack worker 1 closes, again and again, bars that are
\* not in the registry (no bar is ever opened, no redraw thread is ever
\* started) while worker 2 calls log()
NextTwice ==
    \/ DirectCloseIn(1, BarIds)
    \/ CloseLock(1) \/ CloseClear(1) \/ CloseDel(1) \/ CloseWrite(1) \/ CloseFlush(1)
    \/ StopCheck(1) \/ StopTest(1) \/ StopClear(1) \/ StopNone(1)
    \/ Return(1)
    \/ LogCall(2) \/ LogRun(2)

SpecTwice == InitOver(BgArgs) /\ [][NextTwice]_vars

\* the pcs of a worker inside the with block of the CloseProgressBar handler
CloseRegion == {"close_clear", "close_del", "close_write", "close_flush"}

\* C34: the close handler holds the region lock from its clear to its
\* flush; its delete leaves the registry as it is when the identifier is
\* not in it, and what it leaves is what a second close of that identifier
\* leaves; a CloseProgressBar returns without an exception, its clear and
\* its write done.
C34_CloseAgain ==
    [][\A p \in Procs :
         /\ w[p].pc \in CloseRegion => HoldsRegion(p)
         /\ (w[p].pc = "close_del" /\ w'[p].pc # "close_del")
              => /\ ~HasBar(progressbars, w[p].bar_id) => progressbars' = progressbars
                 /\ ~HasBar(progressbars', w[p].bar_id)
                 /\ DelBar(progressbars', w[p].bar_id) = progressbars'
         /\ (w[p].op = "fx_close" /\ w[p].pc # "done" /\ w'[p].pc = "done")
              => (w'[p].exc = "none" /\ w'[p].wrote /\ ~w'[p].pend)
      ]_vars

----------------------------------------------------------------------------
\* GetProgressBarLock through nested text_writer stacks.  user.nest is the
\* stacks of the `with text_writer(...)` blocks around, the outermost first;
\* user.asked is what the senders of GetProgressBarLock got inside them

MaxDepth == 3
MaxAsked == 2

\* fx.safe_send with no handler of the effect returns None
NoLock == [kind |-> "None", of |-> 0]

\* core.py:274, 323-334  the lock object that the stack at level i made: a
\* threading.Lock in the background stack, a _dummy_lock in the foreground
\* stack; the file stack (core.py:264-269) has no GetProgressBarLock handler
OwnLock(st, i) == [kind |-> IF st[i] = "bg" THEN "Lock" ELSE "dummy", of |-> i]

\* the truth value of what safe_send returned: None is false, a lock object
\* (neither class defines __bool__ or __len__) is true
Truthy(l) == l.kind # "None"

\* mutant of GetLock: the handler returns its own lock without asking
GetLockOwn(st, i) ==
    LET S == {j \in 1..i : st[j] # "file"} IN
      IF S = {} THEN NoLock
      ELSE OwnLock(st, CHOOSE j \in S : \A k \in S : k <= j)

\* core.py:238-244  the GetProgressBarLock effect as it reaches level i of
\* the stacks st: no level left, no handler; a file stack passes it on; the
\* handler of another stack forwards it (interpret_final=False) and returns
\* what comes back if that is true, and its own lock otherwise
RECURSIVE GetLock(_, _)
GetLock(st, i) ==
    IF i = 0 THEN NoLock
    ELSE IF st[i] = "file" THEN GetLock(st, i - 1)
    ELSE LET lock_upstream == GetLock(st, i - 1) IN
           IF Truthy(lock_upstream) THEN lock_upstream ELSE OwnLock(st, i)

\* core.py:380-388  with text_writer(file, ...): one more stack inside
EnterWriter ==
    /\ Len(user.nest) < MaxDepth
    /\ \E kind \in {"file", "fg", "bg"} :
         user' = [user EXCEPT !.nest = Append(@, kind), !.asked = <<>>]
    /\ UNCHANGED <<args, mode, interval_passed, outer, screen, Shared, w>>

\* the innermost with block ends
ExitWriter ==
    /\ user.nest # <<>>
    /\ user' = [user EXCEPT !.nest = SubSeq(@, 1, Len(@) - 1), !.asked = <<>>]
    /\ UNCHANGED <<args, mode, interval_passed, outer, screen, Shared, w>>

\* fx.safe_send(GetProgressBarLock()) by a thread whose context holds the
\* d outermost stacks: a worker inside d with blocks, or a redraw thread
\* that was started there (core.py:300, contextvars.copy_context)
AskLock ==
    /\ Len(user.asked) < MaxAsked
    /\ \E d \in 0..Len(user.nest) :
         user' = [user EXCEPT !.asked =
                    Append(@, [nest |-> user.nest, depth |-> d,
                               lock |-> GetLock(user.nest, d)])]
    /\ UNCHANGED <<args, mode, interval_passed, outer, screen, Shared, w>>

NextLock == EnterWriter \/ ExitWriter \/ AskLock

SpecLock == InitOver({NoArgs}) /\ [][NextLock]_vars

\* the levels up to d of the stacks st that have a GetProgressBarLock handler
Providers(st, d) == {j \in 1..d : st[j] # "file"}

\* C35: a sender of GetProgressBarLock gets the lock of the outermost stack
\* around it that has a handler for the effect, and None if no stack has
\* one; so all senders that are inside that stack, at any depth of the same
\* nest, get one and the same lock object.
C35_OutermostLock ==
    /\ \A n \in 1..Len(user.asked) :
         LET a == user.asked[n]
             S == Providers(a.nest, a.depth)
         IN IF S = {} THEN a.lock = NoLock
            ELSE /\ a.lock.of \in S /\ \A k \in S : a.lock.of <= k
                 /\ a.lock = OwnLock(a.nest, a.lock.of)
    /\ \A n, m \in 1..Len(user.asked) :
         LET a == user.asked[n]
             b == user.asked[m]
         IN (a.nest = b.nest /\ Truthy(a.lock) /\ Truthy(b.lock)) => a.lock = b.lock

\* inside a foreground stack inside a background stack, two senders at
\* different depths were answered with the lock of the background stack
C35_Witness ==
    /\ Len(user.asked) = 2
    /\ user.asked[1].nest = <<"bg", "fg">> /\ user.asked[2].nest = <<"bg", "fg">>
    /\ user.asked[1].depth = 2 /\ user.asked[2].depth = 1
    /\ user.asked[1].lock = [kind |-> "Lock", of |-> 1]

====
